---- MODULE Spec2Model ----
(***************************************************************************)
(* A model of the wplace-tools diff engine: the pixel diff codec, the      *)
(* version-3 diff container (writer and reader, byte by byte), the diff    *)
(* pipeline of archive-tool (workers, bounded channel, single writer,      *)
(* temp file and rename) and the apply engine (single and multi diff).     *)
(*                                                                         *)
(* Scaling.  A chunk buffer has ChunkLen bytes instead of 1 000 000.  u16  *)
(* keeps its width.  A u32 checksum is carried as its four little-endian   *)
(* bytes.  u64 arithmetic is carried modulo U64Mod (2^24), because the     *)
(* integers of the model checker have 32 bits; 24 * 2^k wraps at this      *)
(* width at the same multiples of the entry size as at 64 bits.            *)
(***************************************************************************)
EXTENDS Integers, Sequences, FiniteSets, TLC

(***************************************************************************)
(* Bounds of the model.                                                    *)
(***************************************************************************)
ChunkLen == 2

\* Byte values the pixel-level specification draws buffers from: canonical
\* indices (0, 5, 9, 63) and bytes with stray high bits (0x49, 0xC8).
PixelBytes == {0, 5, 9, 63, 73, 200}

(***************************************************************************)
(* Program constants.                                                      *)
(***************************************************************************)
MUTATION_MASK == 64
PALETTE_INDEX_MASK == 63

(***************************************************************************)
(* Small helpers.                                                          *)
(***************************************************************************)
Bytes == 0..255

\* b & PALETTE_INDEX_MASK, for a byte b (the mask is 2^6 - 1)
AndIndexMask(b) == b % (PALETTE_INDEX_MASK + 1)

\* (b & MUTATION_MASK) != 0, for a byte b (the mask is the single bit 2^6)
HasMutation(b) == (b \div MUTATION_MASK) % 2 = 1

\* b | MUTATION_MASK, for a byte b
OrMutation(b) == IF HasMutation(b) THEN b ELSE b + MUTATION_MASK

(***************************************************************************)
(* Pixel diff codec.                                                       *)
(***************************************************************************)
\* diff_chunk without the mutation flag (the mask byte is the bare index)
diff_chunk_noflag(base_buf, new_buf) ==
    [i \in 1..Len(base_buf) |->
        IF AndIndexMask(base_buf[i]) = AndIndexMask(new_buf[i])
        THEN 0 ELSE AndIndexMask(new_buf[i])]

\* diff_chunk that compares and flags the bytes as they are, without
\* taking the palette index out of them first
diff_chunk_unmasked(base_buf, new_buf) ==
    [i \in 1..Len(base_buf) |->
        IF i > Len(new_buf) THEN base_buf[i]
        ELSE IF base_buf[i] = new_buf[i] THEN 0 ELSE OrMutation(new_buf[i])]

\* diff_chunk: the mask is written back over base_buf; zip stops at the
\* shorter of the two buffers, the rest of base_buf stays as it is.
diff_chunk(base_buf, new_buf) ==
    [i \in 1..Len(base_buf) |->
        IF i > Len(new_buf) THEN base_buf[i]
        ELSE LET i1 == AndIndexMask(base_buf[i])
                 i2 == AndIndexMask(new_buf[i])
                 mutated == OrMutation(i2)
             IN  IF i1 = i2 THEN 0 ELSE mutated]

\* apply_chunk taking every non-zero mask byte as a mutation
apply_chunk_nonzero(base, diff_data) ==
    [i \in 1..Len(base) |->
        IF i > Len(diff_data) THEN base[i]
        ELSE IF diff_data[i] # 0 THEN AndIndexMask(diff_data[i]) ELSE base[i]]

\* apply_chunk: base with every flagged mask byte applied
apply_chunk(base, diff_data) ==
    [i \in 1..Len(base) |->
        IF i > Len(diff_data) THEN base[i]
        ELSE LET old_val == base[i]
                 new_val == AndIndexMask(diff_data[i])
             IN  IF HasMutation(diff_data[i]) THEN new_val ELSE old_val]

(***************************************************************************)
(* Bytes, little-endian integers, options.                                 *)
(***************************************************************************)
\* u64 values are carried modulo 2^24
U64Mod == 256 * 256 * 256

\* Option<T>: None is the empty sequence, Some(v) the one-element sequence
None == <<>>
Some(v) == <<v>>
IsSome(o) == Len(o) = 1

Max(a, b) == IF a >= b THEN a ELSE b
Min(a, b) == IF a <= b THEN a ELSE b

\* write_uN::<LE>(n) with w = N / 8 bytes
RECURSIVE LE(_, _)
LE(n, w) == IF w = 0 THEN <<>> ELSE <<n % 256>> \o LE(n \div 256, w - 1)

\* read_uN::<LE>() over the bytes bs
RECURSIVE LEValue(_)
LEValue(bs) == IF bs = <<>> THEN 0 ELSE bs[1] + 256 * LEValue(Tail(bs))

\* read_u64::<LE>(), the value modulo U64Mod
ReadU64(bs) == LEValue(SubSeq(bs, 1, 3))

\* the bytes [pos, pos + len) of a file, cut at the end of the file
FileRange(file, pos, len) == SubSeq(file, pos + 1, Min(pos + len, Len(file)))

\* write data into a file at offset pos (a gap is filled with zero bytes)
FileWriteAt(disk, pos, data) ==
    [i \in 1..Max(Len(disk), pos + Len(data)) |->
        IF i > pos /\ i <= pos + Len(data) THEN data[i - pos]
        ELSE IF i <= Len(disk) THEN disk[i] ELSE 0]

\* (u16, u16) tuples compare lexicographically
KeyLess(a, b) == a[1] < b[1] \/ (a[1] = b[1] /\ a[2] < b[2])

(***************************************************************************)
(* The output stream of the writer: a buffered writer over a file.  A      *)
(* stream is [disk, fpos, buf, quota]: the bytes of the file, the file     *)
(* offset, the bytes still held in the buffer, and the number of writes    *)
(* the operating system still accepts before it starts to fail (Unlimited: *)
(* it never fails).  An operation returns [ok, s].                         *)
(***************************************************************************)
BufCapacity == 16

Unlimited == 0 - 1

NewStream(quota) == [disk |-> <<>>, fpos |-> 0, buf |-> <<>>, quota |-> quota]

\* one write of the operating system: data goes to the file at its offset
os_write(s, data) ==
    IF s.quota = 0 THEN [ok |-> FALSE, s |-> s]
    ELSE [ok |-> TRUE,
          s  |-> [s EXCEPT !.disk = FileWriteAt(@, s.fpos, data),
                           !.fpos = @ + Len(data),
                           !.quota = IF @ > 0 THEN @ - 1 ELSE @]]

\* the buffer is handed to the file
flush_buf(s) ==
    IF s.buf = <<>> THEN [ok |-> TRUE, s |-> s]
    ELSE LET r == os_write(s, s.buf)
         IN  IF r.ok THEN [ok |-> TRUE, s |-> [r.s EXCEPT !.buf = <<>>]] ELSE r

\* write_all: into the buffer when it fits, else flush, and past the buffer
\* when the data is as large as the buffer
write_all(s, data) ==
    LET spare == BufCapacity - Len(s.buf) IN
    IF Len(data) < spare
    THEN [ok |-> TRUE, s |-> [s EXCEPT !.buf = @ \o data]]
    ELSE LET f == IF Len(data) > spare THEN flush_buf(s)
                  ELSE [ok |-> TRUE, s |-> s]
         IN  IF ~f.ok THEN f
             ELSE IF Len(data) >= BufCapacity
                  THEN os_write(f.s, data)
                  ELSE [ok |-> TRUE, s |-> [f.s EXCEPT !.buf = @ \o data]]

\* a run of write_all calls, each followed by `?`
RECURSIVE write_each(_, _)
write_each(s, items) ==
    IF items = <<>> THEN [ok |-> TRUE, s |-> s]
    ELSE LET r == write_all(s, Head(items))
         IN  IF r.ok THEN write_each(r.s, Tail(items)) ELSE r

\* seek(SeekFrom::Start(pos)): flushes the buffer, then moves the file offset
seek(s, pos) ==
    LET f == flush_buf(s)
    IN  IF f.ok THEN [ok |-> TRUE, s |-> [f.s EXCEPT !.fpos = pos]] ELSE f

\* stream_position(): seek(SeekFrom::Current(0)); the position is s.fpos
stream_position(s) == flush_buf(s)

\* dropping the stream flushes the buffer and ignores a failure
drop_stream(s) == flush_buf(s).s

(***************************************************************************)
(* Diff container, version 3.                                              *)
(***************************************************************************)
\* b"wplace-diff"
MAGIC == <<119, 112, 108, 97, 99, 101, 45, 100, 105, 102, 102>>
VERSION == 3
INDEX_ENTRY_SIZE == 24

\* serde_json::to_vec(&Metadata {}): "{}"
MetadataJson == <<123, 125>>

IndexEntry(n, checksum, pos, len) ==
    [x |-> n[1], y |-> n[2], checksum |-> checksum, pos |-> pos, len |-> len]

RECURSIVE Flatten(_)
Flatten(ss) == IF ss = <<>> THEN <<>> ELSE Head(ss) \o Flatten(Tail(ss))

\* IndexEntry::is_changed
is_changed(e) == e.pos # 0 \/ e.len # 0

\* the 24 bytes of an index entry, as finalize writes them
EntryWrites(e) ==
    <<LE(e.x, 2), LE(e.y, 2), e.checksum, LE(e.pos, 8), LE(e.len, 8)>>

\* the entries left in the order of the add_entry calls
NoSort(es) == es

\* sort_by_key(|e| (e.x, e.y)): a stable sort
RECURSIVE InsertSorted(_, _)
InsertSorted(sorted, e) ==
    IF sorted = <<>> THEN <<e>>
    ELSE LET last == sorted[Len(sorted)]
         IN  IF KeyLess(<<e.x, e.y>>, <<last.x, last.y>>)
             THEN InsertSorted(SubSeq(sorted, 1, Len(sorted) - 1), e) \o <<last>>
             ELSE sorted \o <<e>>

RECURSIVE SortEntries(_)
SortEntries(es) ==
    IF es = <<>> THEN <<>>
    ELSE InsertSorted(SortEntries(SubSeq(es, 1, Len(es) - 1)), es[Len(es)])

\* DiffFileWriter::create: [ok, w]; w is the writer [writer,
\* current_diff_data_pos, index_entries]
create(stream) ==
    LET h == write_each(stream,
                 <<MAGIC, LE(VERSION, 2), LE(0, 8), LE(0, 4),
                   LE(Len(MetadataJson), 4), MetadataJson>>)
        p == IF h.ok THEN stream_position(h.s) ELSE h
    IN  [ok |-> p.ok,
         w  |-> [writer |-> p.s,
                 current_diff_data_pos |-> p.s.fpos,
                 index_entries |-> <<>>]]

\* add_entry that leaves current_diff_data_pos where it was
add_entry_no_advance(w, n, compressed_diff_data, chunk_checksum) ==
    IF IsSome(compressed_diff_data)
    THEN LET data == compressed_diff_data[1]
             r == write_all(w.writer, data)
         IN  [ok |-> r.ok,
              w  |-> [w EXCEPT !.writer = r.s,
                               !.index_entries = Append(@,
                                   IndexEntry(n, chunk_checksum,
                                       w.current_diff_data_pos, Len(data)))]]
    ELSE [ok |-> TRUE,
          w  |-> [w EXCEPT !.index_entries =
                      Append(@, IndexEntry(n, chunk_checksum, 0, 0))]]

\* add_entry that takes start_pos after advancing current_diff_data_pos
add_entry_pos_after(w, n, compressed_diff_data, chunk_checksum) ==
    IF IsSome(compressed_diff_data)
    THEN LET data == compressed_diff_data[1]
             r == write_all(w.writer, data)
             end_pos == w.current_diff_data_pos + Len(data)
         IN  [ok |-> r.ok,
              w  |-> [writer |-> r.s,
                      current_diff_data_pos |-> end_pos,
                      index_entries |-> Append(w.index_entries,
                          IndexEntry(n, chunk_checksum, end_pos, Len(data)))]]
    ELSE [ok |-> TRUE,
          w  |-> [w EXCEPT !.index_entries =
                      Append(@, IndexEntry(n, chunk_checksum, 0, 0))]]

\* DiffFileWriter::add_entry: [ok, w]
add_entry(w, n, compressed_diff_data, chunk_checksum) ==
    IF IsSome(compressed_diff_data)
    THEN LET data == compressed_diff_data[1]
             start_pos == w.current_diff_data_pos
             data_len == Len(data)
             r == write_all(w.writer, data)
         IN  IF ~r.ok THEN [ok |-> FALSE, w |-> [w EXCEPT !.writer = r.s]]
             ELSE [ok |-> TRUE,
                   w  |-> [writer |-> r.s,
                           current_diff_data_pos |-> start_pos + data_len,
                           index_entries |-> Append(w.index_entries,
                               IndexEntry(n, chunk_checksum, start_pos, data_len))]]
    ELSE [ok |-> TRUE,
          w  |-> [w EXCEPT !.index_entries =
                      Append(@, IndexEntry(n, chunk_checksum, 0, 0))]]


\* finalize that takes index_offset after the index entries are written
finalize_late_offset(w) ==
    LET sorted == SortEntries(w.index_entries)
        i == write_each(w.writer,
                 Flatten([k \in 1..Len(sorted) |-> EntryWrites(sorted[k])]))
        p == IF i.ok THEN stream_position(i.s) ELSE i
        k == IF p.ok THEN seek(p.s, Len(MAGIC) + 2) ELSE p
        u == IF k.ok
             THEN write_each(k.s, <<LE(p.s.fpos, 8), LE(Len(sorted), 4)>>)
             ELSE k
    IN  [ok |-> u.ok, s |-> drop_stream(u.s)]

\* DiffFileWriter::finalize: [ok, s]; the writer is consumed, so the
\* stream is dropped when finalize returns, with Ok or with an error
finalize(w) ==
    LET sorted == SortEntries(w.index_entries)
        p == stream_position(w.writer)
        index_offset == p.s.fpos
        entry_count == Len(sorted)
        i == IF p.ok
             THEN write_each(p.s,
                      Flatten([k \in 1..Len(sorted) |-> EntryWrites(sorted[k])]))
             ELSE p
        header_pos == Len(MAGIC) + 2
        k == IF i.ok THEN seek(i.s, header_pos) ELSE i
        u == IF k.ok
             THEN write_each(k.s, <<LE(index_offset, 8), LE(entry_count, 4)>>)
             ELSE k
    IN  [ok |-> u.ok, s |-> drop_stream(u.s)]

\* DiffFile::open without the comparison of the version field
open_any_version(file) ==
    LET fail(e) == [ok |-> FALSE, err |-> e, index_pos |-> 0, entry_count |-> 0]
        m == Len(MAGIC)
    IN  IF Len(file) < m THEN fail("io_error")
        ELSE IF SubSeq(file, 1, m) # MAGIC THEN fail("Magic error")
        ELSE IF Len(file) < m + 18 THEN fail("io_error")
        ELSE [ok |-> TRUE, err |-> "",
              index_pos |-> ReadU64(SubSeq(file, m + 3, m + 10)),
              entry_count |-> LEValue(SubSeq(file, m + 11, m + 14))]

(***************************************************************************)
(* Diff container, reader.  A reader is [index_pos, entry_count] over the  *)
(* bytes of a file.                                                        *)
(***************************************************************************)
\* DiffFile::open: [ok, err, index_pos, entry_count]
open(file) ==
    LET fail(e) == [ok |-> FALSE, err |-> e, index_pos |-> 0, entry_count |-> 0]
        m == Len(MAGIC)
    IN  IF Len(file) < m THEN fail("io_error")
        ELSE IF SubSeq(file, 1, m) # MAGIC THEN fail("Magic error")
        ELSE IF Len(file) < m + 2 THEN fail("io_error")
        ELSE IF LEValue(SubSeq(file, m + 1, m + 2)) # VERSION
             THEN fail("Unsupported version")
        ELSE IF Len(file) < m + 18 THEN fail("io_error")
        ELSE LET index_pos == ReadU64(SubSeq(file, m + 3, m + 10))
                 entry_count == LEValue(SubSeq(file, m + 11, m + 14))
                 meta_len == LEValue(SubSeq(file, m + 15, m + 18))
             IN  IF Len(file) < m + 18 + meta_len THEN fail("io_error")
                 ELSE IF SubSeq(file, m + 19, m + 18 + meta_len) # MetadataJson
                      THEN fail("metadata")
                 ELSE [ok |-> TRUE, err |-> "", index_pos |-> index_pos,
                       entry_count |-> entry_count]

\* seek to pos and read_entry_at_current: [ok, entry]
read_entry_at(file, pos) ==
    IF pos + INDEX_ENTRY_SIZE > Len(file)
    THEN [ok |-> FALSE, entry |-> None]
    ELSE LET b == SubSeq(file, pos + 1, pos + INDEX_ENTRY_SIZE)
         IN  [ok |-> TRUE,
              entry |-> Some([x |-> LEValue(SubSeq(b, 1, 2)),
                              y |-> LEValue(SubSeq(b, 3, 4)),
                              checksum |-> SubSeq(b, 5, 8),
                              pos |-> ReadU64(SubSeq(b, 9, 16)),
                              len |-> ReadU64(SubSeq(b, 17, 24))])]

\* results of query_chunk: Ok(Some(entry)), Ok(None), Err(_), or a panic
QOk(v) == [kind |-> "Ok", value |-> v]
QErr == [kind |-> "Err", value |-> None]
QPanic == [kind |-> "Panic", value |-> None]

\* the while loop of query_chunk.  checks: the build has overflow checks (an
\* overflowing +, -, * panics); without them the arithmetic wraps.
RECURSIVE query_loop(_, _, _, _, _, _)
query_loop(file, rd, target, low, high, checks) ==
    IF low > high THEN QOk(None)
    ELSE
    LET sum == low + high
        mid == (sum % U64Mod) \div 2
        prod == mid * INDEX_ENTRY_SIZE
        off == rd.index_pos + (prod % U64Mod)
    IN  IF checks /\ (sum >= U64Mod \/ prod >= U64Mod \/ off >= U64Mod)
        THEN QPanic
        ELSE
        LET r == read_entry_at(file, off % U64Mod) IN
        IF ~r.ok THEN QErr
        ELSE LET entry == r.entry[1]
                 current_coord == <<entry.x, entry.y>>
             IN  IF current_coord = target THEN QOk(Some(entry))
                 ELSE IF KeyLess(current_coord, target)
                      THEN query_loop(file, rd, target, mid + 1, high, checks)
                 ELSE IF mid = 0
                      THEN IF checks THEN QPanic
                           ELSE query_loop(file, rd, target, low, U64Mod - 1, checks)
                 ELSE query_loop(file, rd, target, low, mid - 1, checks)

\* query_chunk with high = mid wherever the code has high = mid - 1 (a search
\* over a half-open range written into the closed-range loop)
RECURSIVE query_loop_halfopen(_, _, _, _, _, _)
query_loop_halfopen(file, rd, target, low, high, checks) ==
    IF low >= high THEN QOk(None)
    ELSE
    LET mid == (low + high) \div 2
        r == read_entry_at(file, rd.index_pos + mid * INDEX_ENTRY_SIZE)
    IN  IF ~r.ok THEN QErr
        ELSE LET entry == r.entry[1]
                 current_coord == <<entry.x, entry.y>>
             IN  IF current_coord = target THEN QOk(Some(entry))
                 ELSE IF KeyLess(current_coord, target)
                      THEN query_loop_halfopen(file, rd, target, mid + 1, high, checks)
                 ELSE query_loop_halfopen(file, rd, target, low, mid, checks)

query_chunk_halfopen(file, rd, target, checks) ==
    IF rd.entry_count = 0 THEN QOk(None)
    ELSE query_loop_halfopen(file, rd, target, 0, rd.entry_count - 1, checks)

\* DiffFile::query_chunk
query_chunk(file, rd, target, checks) ==
    IF rd.entry_count = 0
    THEN IF checks THEN QPanic
         ELSE query_loop(file, rd, target, 0, U64Mod - 1, checks)
    ELSE query_loop(file, rd, target, 0, rd.entry_count - 1, checks)

\* HashMap::insert
MapInsert(map, key, value) ==
    [k \in DOMAIN map \cup {key} |-> IF k = key THEN value ELSE map[k]]

EmptyMap == [k \in {} |-> None]

\* DiffFile::collect_index: [ok, map], map from chunk number to entry
RECURSIVE collect_loop(_, _, _, _)
collect_loop(file, pos, remaining, map) ==
    IF remaining = 0 THEN [ok |-> TRUE, map |-> map]
    ELSE LET r == read_entry_at(file, pos)
         IN  IF ~r.ok THEN [ok |-> FALSE, map |-> EmptyMap]
             ELSE collect_loop(file, pos + INDEX_ENTRY_SIZE, remaining - 1,
                               MapInsert(map, <<r.entry[1].x, r.entry[1].y>>,
                                         r.entry[1]))

collect_index(file, rd) == collect_loop(file, rd.index_pos, rd.entry_count, EmptyMap)

\* DiffFile::open_chunk, read to its end: the bytes of [pos, pos + len)
open_chunk(file, entry) == FileRange(file, entry.pos, entry.len)

(***************************************************************************)
(* Chunk checksum: CRC-32/CKSUM (polynomial 0x04C11DB7, initial value 0,   *)
(* not reflected, final xor 0xFFFFFFFF), computed bit by bit over a        *)
(* register of 32 bits; the result is the four little-endian bytes of the  *)
(* u32.                                                                    *)
(***************************************************************************)
\* the bits of 0x04C11DB7, bit 0 the lowest
PolyBits ==
    [i \in 0..31 |->
        IF i \in {26, 23, 22, 16, 12, 11, 10, 8, 7, 5, 4, 2, 1, 0} THEN 1 ELSE 0]

Xor(a, b) == (a + b) % 2

RECURSIVE Pow2(_)
Pow2(k) == IF k = 0 THEN 1 ELSE 2 * Pow2(k - 1)

\* bit k of byte b
ByteBit(b, k) == (b \div Pow2(k)) % 2

\* one message bit enters the register
CrcBit(reg, bit) ==
    LET top == Xor(reg[31], bit)
    IN  [i \in 0..31 |->
            Xor(IF i = 0 THEN 0 ELSE reg[i - 1], IF top = 1 THEN PolyBits[i] ELSE 0)]

\* the bits of a byte enter the register, highest first
RECURSIVE CrcByte(_, _, _)
CrcByte(reg, b, k) ==
    IF k < 0 THEN reg ELSE CrcByte(CrcBit(reg, ByteBit(b, k)), b, k - 1)

RECURSIVE CrcBytes(_, _)
CrcBytes(reg, data) ==
    IF data = <<>> THEN reg ELSE CrcBytes(CrcByte(reg, Head(data), 7), Tail(data))

RECURSIVE BitsValue(_, _, _)
BitsValue(reg, lo, n) ==
    IF n = 0 THEN 0 ELSE reg[lo] + 2 * BitsValue(reg, lo + 1, n - 1)

\* chunk_checksum(data): CRC32.checksum(data), as little-endian bytes
chunk_checksum(data) ==
    LET reg == CrcBytes([i \in 0..31 |-> 0], data)
        out == [i \in 0..31 |-> 1 - reg[i]]
    IN  [j \in 1..4 |-> BitsValue(out, 8 * (j - 1), 8)]

\* validate_chunk_checksum that accepts every chunk
validate_chunk_checksum_skip(chunk, checksum) == TRUE

\* validate_chunk_checksum: TRUE for Ok
validate_chunk_checksum(chunk, checksum) == chunk_checksum(chunk) = checksum

(***************************************************************************)
(* zstd, as far as the program relies on it: a frame is the magic number,  *)
(* the content size and the content; decoding into a buffer of n bytes     *)
(* (read_exact) fails on a bad or cut frame and on content shorter than n, *)
(* and takes the first n bytes of longer content.                          *)
(***************************************************************************)
ZstdMagic == <<40, 181, 47, 253>>

\* zstd::encode_all(data, level)
zstd_encode(data) == ZstdMagic \o <<Len(data)>> \o data

\* zstd_decompress(reader, buf) with buf of n bytes: [ok, data]
zstd_decompress(frame, n) ==
    LET m == Len(ZstdMagic)
        bad == [ok |-> FALSE, data |-> <<>>]
    IN  IF Len(frame) < m + 1 THEN bad
        ELSE IF SubSeq(frame, 1, m) # ZstdMagic THEN bad
        ELSE IF Len(frame) < m + 1 + frame[m + 1] THEN bad
        ELSE IF frame[m + 1] < n THEN bad
        ELSE [ok |-> TRUE, data |-> SubSeq(frame, m + 2, m + 1 + n)]

\* diff_chunk_compressed(base_buf, new_buf)
diff_chunk_compressed(base_buf, new_buf) == zstd_encode(diff_chunk(base_buf, new_buf))

(***************************************************************************)
(* Snapshots and chunk fetchers.  A snapshot is a function from the chunk  *)
(* numbers it holds to their canonical buffers.                            *)
(***************************************************************************)
\* chunk_buf!()
ZeroBuf == [i \in 1..ChunkLen |-> 0]

\* ChunkFetcher::fetch(n, buf): [present, buf]; buf is untouched when the
\* chunk is missing
fetch(snap, n, buf) ==
    IF n \in DOMAIN snap THEN [present |-> TRUE, buf |-> snap[n]]
    ELSE [present |-> FALSE, buf |-> buf]

\* the least chunk number of a non-empty set
MinKey(ks) == CHOOSE k \in ks : \A o \in ks : o = k \/ KeyLess(k, o)

\* chunks_iter(): the chunk numbers in ascending order (collect_chunks sorts
\* the directory listing; the tar index is an ordered map)
RECURSIVE SortedKeys(_)
SortedKeys(ks) ==
    IF ks = {} THEN <<>> ELSE <<MinKey(ks)>> \o SortedKeys(ks \ {MinKey(ks)})

chunks_iter(snap) == SortedKeys(DOMAIN snap)

(***************************************************************************)
(* Diff pipeline: the step of a worker for one chunk.                      *)
(***************************************************************************)
\* the closure of do_diff computing a diff for every chunk, equal or not
worker_step_always_diff(base_fetcher, new_fetcher, n, base_buf, new_buf) ==
    LET fnew == fetch(new_fetcher, n, new_buf)
        fbase == fetch(base_fetcher, n, base_buf)
        filled == IF fbase.present THEN fbase.buf ELSE ZeroBuf
    IN  [present |-> fnew.present,
         base_buf |-> diff_chunk(filled, fnew.buf),
         new_buf |-> fnew.buf,
         msg |-> [n |-> n,
                  diff |-> Some(diff_chunk_compressed(filled, fnew.buf)),
                  checksum |-> chunk_checksum(fnew.buf)]]

\* the closure of do_diff without base_buf.fill(0): a chunk the base lacks
\* is diffed against what the scratch buffer holds
worker_step_scratch(base_fetcher, new_fetcher, n, base_buf, new_buf) ==
    LET fnew == fetch(new_fetcher, n, new_buf)
        fbase == fetch(base_fetcher, n, base_buf)
        changed == ~fbase.present \/ fbase.buf # fnew.buf
    IN  [present |-> fnew.present,
         base_buf |-> IF changed THEN diff_chunk(fbase.buf, fnew.buf) ELSE fbase.buf,
         new_buf |-> fnew.buf,
         msg |-> [n |-> n,
                  diff |-> IF changed
                           THEN Some(diff_chunk_compressed(fbase.buf, fnew.buf))
                           ELSE None,
                  checksum |-> chunk_checksum(fnew.buf)]]

\* the closure of do_diff over the scratch buffers (base_buf, new_buf):
\* [present, base_buf, new_buf, msg]; msg is what tx.send receives
worker_step(base_fetcher, new_fetcher, n, base_buf, new_buf) ==
    LET fnew == fetch(new_fetcher, n, new_buf)
        fbase == fetch(base_fetcher, n, base_buf)
        base_chunk_present == fbase.present
        filled == IF base_chunk_present THEN fbase.buf ELSE ZeroBuf
        checksum == chunk_checksum(fnew.buf)
        changed == ~base_chunk_present \/ filled # fnew.buf
    IN  [present |-> fnew.present,
         base_buf |-> IF changed THEN diff_chunk(filled, fnew.buf) ELSE filled,
         new_buf |-> fnew.buf,
         msg |-> [n |-> n,
                  diff |-> IF changed
                           THEN Some(diff_chunk_compressed(filled, fnew.buf))
                           ELSE None,
                  checksum |-> checksum]]

\* the whole of do_diff run by one worker over a stream that never fails:
\* the bytes of the diff file from base to new
RECURSIVE add_all(_, _, _, _)
add_all(w, base, new, todo) ==
    IF todo = <<>> THEN w
    ELSE LET m == worker_step(base, new, Head(todo), ZeroBuf, ZeroBuf).msg
         IN  add_all(add_entry(w, m.n, m.diff, m.checksum).w, base, new, Tail(todo))

DiffFileOf(base, new) ==
    finalize(add_all(create(NewStream(Unlimited)).w, base, new, chunks_iter(new))).s.disk

(***************************************************************************)
(* Apply.  A chunk file is modelled by the canonical buffer its PNG        *)
(* decodes to; the empty byte vector of a missing file is <<>>.  The       *)
(* parallel loops touch one slot per chunk number, so a call is taken as   *)
(* one step; when exit(1) cuts a loop short the chunks already written are *)
(* any of those the loop could have written.                               *)
(***************************************************************************)
\* ChunkFetcher::fetch_raw: the file's bytes, empty when there is no file
fetch_raw(snap, n) == IF n \in DOMAIN snap THEN snap[n] ELSE <<>>

\* the restriction of a map to the keys in d
Restrict(map, d) == [n \in d |-> map[n]]

\* maps that a cut-short loop can leave: all of sure, any of maybe
Partial(map, sure, maybe) == {Restrict(map, sure \cup d) : d \in SUBSET maybe}

\* the closure of apply_1st_diff over a changed chunk: [ok, buf]
first_changed(base_fetcher, file, n, entry, checksum_off) ==
    LET raw_diff == zstd_decompress(open_chunk(file, entry), ChunkLen)
        fb == fetch(base_fetcher, n, ZeroBuf)
        base_buf == IF fb.present THEN fb.buf ELSE ZeroBuf
        applied == IF raw_diff.ok THEN apply_chunk(base_buf, raw_diff.data)
                   ELSE base_buf
    IN  [ok |-> /\ raw_diff.ok
                /\ checksum_off \/ validate_chunk_checksum(applied, entry.checksum),
         buf |-> applied,
         file |-> applied]

\* the closure of apply_1st_diff over an unchanged chunk: [ok, buf, file];
\* buf is read from the PNG only when checksums are validated
first_unchanged(base_fetcher, n, entry, checksum_off) ==
    LET png_raw == fetch_raw(base_fetcher, n)
        buf == IF checksum_off \/ png_raw = <<>> THEN ZeroBuf ELSE png_raw
    IN  [ok |-> \/ checksum_off
                \/ png_raw # <<>> /\ validate_chunk_checksum(buf, entry.checksum),
         buf |-> buf,
         file |-> png_raw]

\* apply_1st_diff behind its two loops: res maps every chunk number of the
\* index to what its closure made of it, [ok, buf, file]
apply_1st_loops(use_memory, memory, use_output, opened, changed_chunks, res) ==
    LET chunks == DOMAIN res
        good == {n \in chunks : res[n].ok}
    IN  [ok |-> opened /\ good = chunks,
         memory |-> IF use_memory
                    THEN [n \in DOMAIN memory \cup good |->
                             IF n \in good THEN zstd_encode(res[n].buf)
                             ELSE memory[n]]
                    ELSE memory,
         output |-> IF use_output THEN [n \in chunks |-> res[n].file]
                    ELSE EmptyMap,
         partial |-> IF ~use_output THEN {EmptyMap}
                     ELSE IF changed_chunks \subseteq good
                     THEN Partial([n \in chunks |-> res[n].file], changed_chunks,
                                  (chunks \ changed_chunks) \cap good)
                     ELSE Partial([n \in chunks |-> res[n].file], {},
                                  changed_chunks \cap good)]

\* apply_1st_diff behind DiffFile::open and collect_index, diff_file_ and
\* index being what they returned
apply_1st_index(use_memory, memory, base_fetcher, file, use_output, checksum_off, diff_file_, index) ==
    apply_1st_loops(use_memory, memory, use_output, diff_file_.ok /\ index.ok,
        {n \in DOMAIN index.map :
            diff_file_.ok /\ index.ok /\ is_changed(index.map[n])},
        [n \in (IF diff_file_.ok /\ index.ok THEN DOMAIN index.map ELSE {}) |->
            IF is_changed(index.map[n])
            THEN first_changed(base_fetcher, file, n, index.map[n], checksum_off)
            ELSE first_unchanged(base_fetcher, n, index.map[n], checksum_off)])

\* apply_1st_diff(memory, base_fetcher, diff, output, no_checksum):
\* [ok, memory, output, partial]; use_memory is memory.is_some(), memory and
\* output are as the call leaves them when it returns Ok, partial is what
\* the output directory can hold when the call exits
apply_1st_diff(use_memory, memory, base_fetcher, file, use_output, checksum_off) ==
    apply_1st_index(use_memory, memory, base_fetcher, file, use_output,
                    checksum_off, open(file), collect_index(file, open(file)))

\* decompress_to(n, to): the slot's content, zeros for an empty slot
decompress_to(memory, n) ==
    IF n \in DOMAIN memory THEN zstd_decompress(memory[n], ChunkLen).data
    ELSE ZeroBuf

\* the first closure of apply_non_1st_diff over a changed entry: [ok, buf]
non_1st_changed(memory, file, n, entry, checksum_off) ==
    LET base_buf == decompress_to(memory, n)
        diff_data_buf == zstd_decompress(open_chunk(file, entry), ChunkLen)
        applied == IF diff_data_buf.ok THEN apply_chunk(base_buf, diff_data_buf.data)
                   ELSE base_buf
    IN  [ok |-> /\ diff_data_buf.ok
                /\ checksum_off \/ validate_chunk_checksum(applied, entry.checksum),
         buf |-> applied]

\* apply_non_1st_diff behind its first loop: res maps the chunk numbers of
\* the changed entries to what the closure made of them, [ok, buf], and
\* updated is the memory store the loop leaves
apply_non_1st_write(use_output, checksum_off, opened, map, applied_ok, updated) ==
    LET chunks == DOMAIN map
        valid == {n \in chunks :
                     checksum_off
                       \/ validate_chunk_checksum(decompress_to(updated, n),
                                                  map[n].checksum)}
    IN  [ok |-> opened /\ applied_ok /\ (use_output => valid = chunks),
         memory |-> updated,
         output |-> IF use_output THEN [n \in chunks |-> decompress_to(updated, n)]
                    ELSE EmptyMap,
         partial |-> IF ~use_output \/ ~applied_ok THEN {EmptyMap}
                     ELSE {m \in Partial([n \in chunks |-> decompress_to(updated, n)],
                                         {}, chunks) :
                              DOMAIN m \ valid # {}}]

\* apply_non_1st_diff behind the closure calls of its first loop
apply_non_1st_loop(memory, use_output, checksum_off, opened, map, res) ==
    apply_non_1st_write(use_output, checksum_off, opened, map,
        \A n \in DOMAIN res : res[n].ok,
        [n \in DOMAIN memory \cup {c \in DOMAIN res : res[c].ok} |->
            IF n \in DOMAIN res /\ res[n].ok THEN zstd_encode(res[n].buf)
            ELSE memory[n]])

\* apply_non_1st_diff behind DiffFile::open and collect_index
apply_non_1st_index(memory, file, use_output, checksum_off, diff_file_, index) ==
    apply_non_1st_loop(memory, use_output, checksum_off, diff_file_.ok /\ index.ok,
        IF diff_file_.ok /\ index.ok THEN index.map ELSE EmptyMap,
        [n \in {c \in DOMAIN index.map :
                   diff_file_.ok /\ index.ok /\ is_changed(index.map[c])} |->
            non_1st_changed(memory, file, n, index.map[n], checksum_off)])

\* apply_non_1st_diff(memory, diff, output, no_checksum):
\* [ok, memory, output, partial]
apply_non_1st_diff(memory, file, use_output, checksum_off) ==
    apply_non_1st_index(memory, file, use_output, checksum_off, open(file),
                        collect_index(file, open(file)))

\* the diffs from number i on, applied to the memory store as apply::main
\* does after the first diff: TRUE when every call returns Ok
RECURSIVE apply_rest(_, _, _, _, _)
apply_rest(memory, ds, i, use_output, checksum_off) ==
    IF i = Len(ds)
    THEN apply_non_1st_diff(memory, ds[i], use_output, checksum_off).ok
    ELSE LET r == apply_non_1st_diff(memory, ds[i], FALSE, checksum_off)
         IN  r.ok /\ apply_rest(r.memory, ds, i + 1, use_output, checksum_off)

\* apply::main behind the argument checks, over the base and the diffs ds:
\* TRUE when the run ends with success
apply_main(base_fetcher, ds, use_output, checksum_off) ==
    IF Len(ds) = 1
    THEN apply_1st_diff(FALSE, EmptyMap, base_fetcher, ds[1], use_output,
                        checksum_off).ok
    ELSE LET r == apply_1st_diff(TRUE, EmptyMap, base_fetcher, ds[1], FALSE,
                                 checksum_off)
         IN  r.ok /\ apply_rest(r.memory, ds, 2, use_output, checksum_off)


(***************************************************************************)
(* Tar index.  An archive is the sequence of its entries, each with the    *)
(* type of its header, its path as a sequence of characters and the size   *)
(* of its data; an entry takes a header block of 512 bytes and its data    *)
(* padded to whole blocks.                                                 *)
(***************************************************************************)
Digits == <<"0", "1", "2", "3", "4", "5", "6", "7", "8", "9">>

IsDigit(c) == \E d \in 1..10 : Digits[d] = c

DigitValue(c) == (CHOOSE d \in 1..10 : Digits[d] = c) - 1

\* the number of digits at the end of a path
RECURSIVE TrailingDigits(_)
TrailingDigits(p) ==
    IF p = <<>> \/ ~IsDigit(p[Len(p)]) THEN 0
    ELSE 1 + TrailingDigits(SubSeq(p, 1, Len(p) - 1))

\* the path without its last k characters
DropLast(p, k) == SubSeq(p, 1, Len(p) - k)

\* the last k characters of the path
TakeLast(p, k) == SubSeq(p, Len(p) - k + 1, Len(p))

\* regex!(r".*/(\d+)/(\d+)\.png$").captures(path): None, or the two groups
regex_captures(path) ==
    LET suffix == <<".", "p", "n", "g">>
        a == DropLast(path, Len(suffix))
        k2 == TrailingDigits(a)
        b == DropLast(a, k2 + 1)
        k1 == TrailingDigits(b)
        c == DropLast(b, k1)
    IN  IF /\ Len(path) >= Len(suffix)
           /\ TakeLast(path, Len(suffix)) = suffix
           /\ k2 >= 1 /\ Len(a) > k2 /\ a[Len(a) - k2] = "/"
           /\ k1 >= 1 /\ Len(b) > k1 /\ c[Len(c)] = "/"
        THEN Some(<<TakeLast(b, k1), TakeLast(a, k2)>>)
        ELSE None

\* regex.is_match(path)
regex_is_match(path) == IsSome(regex_captures(path))

RECURSIVE DecimalValue(_)
DecimalValue(ds) ==
    IF ds = <<>> THEN 0
    ELSE 10 * DecimalValue(DropLast(ds, 1)) + DigitValue(ds[Len(ds)])

\* str::parse::<u16>() of a string of digits: [ok, value]
parse_u16(ds) ==
    [ok |-> DecimalValue(ds) < 65536, value |-> DecimalValue(ds)]

\* Entry::raw_file_position of entry number k (from 1): the offset of its
\* data in the archive
RECURSIVE raw_file_position(_, _)
raw_file_position(archive, k) ==
    IF k = 1 THEN 512
    ELSE raw_file_position(archive, k - 1)
             + 512 * ((archive[k - 1].size + 511) \div 512) + 512

\* Path::file_name of the path of a directory entry: None, or the name
RECURSIVE file_name(_)
file_name(path) ==
    LET RECURSIVE Name(_)
        Name(q) == IF q = <<>> \/ q[Len(q)] = "/" THEN <<>>
                   ELSE Name(DropLast(q, 1)) \o <<q[Len(q)]>>
    IN  IF path # <<>> /\ path[Len(path)] = "/" THEN file_name(DropLast(path, 1))
        ELSE IF Name(path) \in {<<>>, <<".", ".">>} THEN None
        ELSE Some(Name(path))

TarOk(map, root_name) == [kind |-> "Ok", map |-> map, root_name |-> root_name]
TarErr == [kind |-> "Err"]
TarPanic == [kind |-> "Panic"]

\* the loop of index_chunks over the entries behind the first
RECURSIVE index_loop(_, _, _, _)
index_loop(archive, k, map, root_name) ==
    IF k > Len(archive) THEN TarOk(map, root_name)
    ELSE LET x == archive[k]
             group == regex_captures(x.path)
             cx == parse_u16(group[1][1])
             cy == parse_u16(group[1][2])
             range == [start |-> raw_file_position(archive, k), size |-> x.size]
         IN  IF x.type # "Regular"
             THEN index_loop(archive, k + 1, map, root_name)
             ELSE IF ~regex_is_match(x.path) THEN TarPanic
             ELSE IF ~cx.ok \/ ~cy.ok THEN TarErr
             ELSE index_loop(archive, k + 1,
                             MapInsert(map, <<cx.value, cy.value>>, range),
                             root_name)

\* ChunksTarReader::index_chunks, as open_with_index returns it
index_chunks(archive) ==
    IF archive = <<>> THEN TarPanic
    ELSE IF archive[1].type # "Directory" THEN TarPanic
    ELSE IF ~IsSome(file_name(archive[1].path)) THEN TarPanic
    ELSE index_loop(archive, 2, EmptyMap, file_name(archive[1].path)[1])

\* ChunksTarReader::open_chunk: None, or the range that is opened
tar_open_chunk(reader, chunk_number) ==
    IF chunk_number \in DOMAIN reader.map THEN Some(reader.map[chunk_number])
    ELSE None


(***************************************************************************)
(* Directory snapshots.  A directory is the set of the paths of its        *)
(* regular files, relative to the root, each a sequence of characters.     *)
(***************************************************************************)
\* the position of the first slash of a path that has one
FirstSlash(path) == CHOOSE k \in 1..Len(path) :
                        path[k] = "/" /\ \A j \in 1..(k - 1) : path[j] # "/"

\* Path::components of a relative path
RECURSIVE components(_)
components(path) ==
    IF path = <<>> THEN <<>>
    ELSE IF \E k \in 1..Len(path) : path[k] = "/"
    THEN <<SubSeq(path, 1, FirstSlash(path) - 1)>>
             \o components(SubSeq(path, FirstSlash(path) + 1, Len(path)))
    ELSE <<path>>

\* PathBuf::set_extension(""): the file name loses what follows its last
\* dot, the dot included, unless the dot is its first character
set_extension_empty(path) ==
    LET dots == {k \in 1..Len(path) :
                    /\ path[k] = "."
                    /\ \A j \in k..Len(path) : path[j] # "/"
                    /\ k > 1 /\ path[k - 1] # "/"}
    IN  IF dots = {} THEN path
        ELSE SubSeq(path, 1, (CHOOSE k \in dots : \A j \in dots : j <= k) - 1)

\* str::parse::<u16>(): [ok, value]
str_parse_u16(str) ==
    IF str # <<>> /\ \A k \in 1..Len(str) : IsDigit(str[k])
    THEN parse_u16(str)
    ELSE [ok |-> FALSE, value |-> 0]

\* the body of the loop of collect_chunks for one file: None when the loop
\* continues, or the chunk number it pushes
collected_of(path) ==
    LET c == components(set_extension_empty(path))
    IN  IF Len(c) < 2 THEN None
        ELSE IF str_parse_u16(c[1]).ok /\ str_parse_u16(c[2]).ok
        THEN Some(<<str_parse_u16(c[1]).value, str_parse_u16(c[2]).value>>)
        ELSE None

RECURSIVE Repeat(_, _)
Repeat(x, k) == IF k = 0 THEN <<>> ELSE <<x>> \o Repeat(x, k - 1)

\* collect_chunks(dir, None): one number for each file the loop does not
\* skip, sorted
collect_chunks(dir) ==
    LET sorted == SortedKeys({collected_of(p)[1] :
                                 p \in {q \in dir : collected_of(q) # None}})
    IN  Flatten([i \in 1..Len(sorted) |->
                    Repeat(sorted[i],
                           Cardinality({p \in dir :
                                           collected_of(p) = Some(sorted[i])}))])

\* format!("{}") of a number
RECURSIVE to_decimal(_)
to_decimal(v) ==
    IF v < 10 THEN <<Digits[v + 1]>>
    ELSE to_decimal(v \div 10) \o <<Digits[(v % 10) + 1]>>

\* DirChunkFetcher::fetch up to the test of file.exists()
dir_fetch_present(dir, n) ==
    (to_decimal(n[1]) \o <<"/">> \o to_decimal(n[2]) \o <<".", "p", "n", "g">>)
        \in dir

(***************************************************************************)
(* Indexed PNG.  A PNG file is taken as what the png crate hands over:     *)
(* the bit depth, the palette (PLTE) as RGB triples, the alpha values of   *)
(* tRNS (None when there is no tRNS) and the packed bytes of the frame.    *)
(* A file that is no PNG is <<>>.                                          *)
(***************************************************************************)
GLOBAL_PALETTE ==
    <<
       <<0, 0, 0>>, <<0, 0, 0>>, <<60, 60, 60>>, <<120, 120, 120>>,
       <<170, 170, 170>>, <<210, 210, 210>>, <<255, 255, 255>>, <<96, 0, 24>>,
       <<165, 14, 30>>, <<237, 28, 36>>, <<250, 128, 114>>, <<228, 92, 26>>,
       <<255, 127, 39>>, <<246, 170, 9>>, <<249, 221, 59>>, <<255, 250, 188>>,
       <<156, 132, 49>>, <<197, 173, 49>>, <<232, 212, 95>>, <<74, 107, 58>>,
       <<90, 148, 74>>, <<132, 197, 115>>, <<14, 185, 104>>, <<19, 230, 123>>,
       <<135, 255, 94>>, <<12, 129, 110>>, <<16, 174, 166>>, <<19, 225, 190>>,
       <<15, 121, 159>>, <<96, 247, 242>>, <<187, 250, 242>>, <<40, 80, 158>>,
       <<64, 147, 228>>, <<125, 199, 255>>, <<77, 49, 184>>, <<107, 80, 246>>,
       <<153, 177, 251>>, <<74, 66, 132>>, <<122, 113, 196>>, <<181, 174, 241>>,
       <<120, 12, 153>>, <<170, 56, 185>>, <<224, 159, 249>>, <<203, 0, 122>>,
       <<236, 31, 128>>, <<243, 141, 169>>, <<155, 82, 73>>, <<209, 128, 120>>,
       <<250, 182, 164>>, <<104, 70, 52>>, <<149, 104, 42>>, <<219, 164, 99>>,
       <<123, 99, 82>>, <<156, 132, 107>>, <<214, 181, 148>>, <<209, 128, 81>>,
       <<248, 178, 119>>, <<255, 197, 165>>, <<109, 100, 63>>, <<148, 140, 107>>,
       <<205, 197, 158>>, <<51, 57, 65>>, <<109, 117, 141>>, <<179, 185, 209>>
    >>

MAX_COLORS == 64
U8_MAX == 255

\* pack_rgb
pack_rgb(rgb) == rgb[1] * 65536 + rgb[2] * 256 + rgb[3]

\* create_palette_lookup_table()[packed]: u8::MAX where no colour of the
\* global palette from index 1 on has this value, else the last such index
lut(packed) ==
    LET hits == {index \in 1..(Len(GLOBAL_PALETTE) - 1) :
                    pack_rgb(GLOBAL_PALETTE[index + 1]) = packed}
    IN  IF hits = {} THEN U8_MAX
        ELSE CHOOSE index \in hits : \A o \in hits : o <= index

\* PixelMapper::new with every palette entry taken as opaque
PixelMapper_new_opaque(info) ==
    LET color_count == Len(info.palette)
    IN  [ok |-> color_count <= MAX_COLORS,
         fast_map |-> [i \in 0..255 |->
                          IF i < color_count /\ i < MAX_COLORS
                          THEN lut(pack_rgb(info.palette[i + 1]))
                          ELSE 0]]

\* PixelMapper::new(png_info): [ok, fast_map]; not ok is a panic (more than
\* 64 palette entries or more than 64 tRNS values)
PixelMapper_new(info) ==
    LET color_count == Len(info.palette)
        trns_len == IF IsSome(info.trns) THEN Len(info.trns[1]) ELSE 0
        expanded_trns(i) == IF i < trns_len THEN info.trns[1][i + 1] ELSE 255
    IN  [ok |-> color_count <= MAX_COLORS /\ trns_len <= MAX_COLORS,
         fast_map |-> [i \in 0..255 |->
                          IF i < color_count /\ i < MAX_COLORS
                          THEN IF expanded_trns(i) = 0 THEN 0
                               ELSE lut(pack_rgb(info.palette[i + 1]))
                          ELSE 0]]

\* the k-th field (from 0, most significant first) of depth bits of a byte
BitField(byte, depth, k) ==
    (byte \div Pow2(8 - depth * (k + 1))) % Pow2(depth)

PngOk(buf) == [kind |-> "Ok", buf |-> buf]
PngErr == [kind |-> "Err", buf |-> <<>>]
PngPanic == [kind |-> "Panic", buf |-> <<>>]

\* read_png_reader(reader, index_buf): Ok with the buffer, Err, or a panic
read_png_reader(png, index_buf) ==
    IF png = <<>> THEN PngErr
    ELSE
    LET png_buf_size == Len(png.data)
        per == 8 \div png.bit_depth
        frame == [i \in 1..Len(index_buf) |->
                     IF i <= png_buf_size THEN png.data[i] ELSE index_buf[i]]
        pixel_mapper == PixelMapper_new(png)
    IN  IF Len(index_buf) < png_buf_size THEN PngErr
        ELSE IF ~pixel_mapper.ok THEN PngPanic
        ELSE IF png.bit_depth = 8
        THEN PngOk([i \in 1..Len(index_buf) |-> pixel_mapper.fast_map[frame[i]]])
        ELSE IF png_buf_size * per > Len(index_buf) THEN PngPanic
        ELSE PngOk([i \in 1..Len(index_buf) |->
                       IF i <= png_buf_size * per
                       THEN pixel_mapper.fast_map[
                                BitField(png.data[((i - 1) \div per) + 1],
                                         png.bit_depth, (i - 1) % per)]
                       ELSE frame[i]])

\* write_chunk_png(path, buf): the file written
write_chunk_png(buf) ==
    [bit_depth |-> 8, palette |-> GLOBAL_PALETTE, trns |-> Some(<<0>>),
     data |-> buf]


(***************************************************************************)
(* State.                                                                  *)
(***************************************************************************)
VARIABLES
    pix_base,   \* pixel codec: the base chunk as fetched
    pix_new,    \* pixel codec: the new chunk as fetched
    pix_buf,    \* pixel codec: the buffer diff_chunk and apply_chunk work on
    pix_mask,   \* pixel codec: the mask handed to apply_chunk
    pix_pc,     \* pixel codec: position of the round trip
    diff_file,  \* the DiffFileWriter (writer, current_diff_data_pos, index_entries)
    dw_pc,      \* life of the writer: "new", "open", "finalized", "failed"
    out_file,   \* the bytes of the file the writer leaves behind, once dropped
    added,      \* history: the add_entry calls that returned Ok, in order
    reader,     \* the DiffFile opened over out_file (the result of open)
    rd,         \* the last operation of the reader and its result
    base_snap,  \* do_diff: the base snapshot behind base_fetcher
    new_snap,   \* do_diff: the new snapshot behind new_fetcher
    new_chunks, \* do_diff: the chunk numbers new_fetcher.chunks_iter() yields
    panicked,   \* do_diff: the workers whose closure has panicked
    sent,       \* history: the messages tx.send has returned for, in order
    passed,     \* history: the messages handed to add_entry, in order
    fin,        \* history: what the calls of finalize returned
    next_chunk, \* do_diff: how many items of chunks_iter the workers have taken
    workers,    \* do_diff: per worker its scratch buffers and the message in hand
    chan,       \* do_diff: the messages in the bounded channel
    diff_pc,    \* do_diff: position of the main thread
    final_file, \* do_diff: the file at the output path, None when there is none
    snapshots,  \* apply: the snapshots S0..Sk the diffs were made of
    diffs,      \* apply: args.diffs, the diff files D1..Dk
    no_checksum, \* apply: args.no_checksum
    memory_store, \* apply: the slots that are Some, chunk number to zstd frame
    output,     \* apply: the output directory, chunk number to chunk content
    diff_i,     \* apply: how many diffs have been applied
    ap_pc,      \* apply: "start", "applying", "done", or "exit" after exit(1)
    dry_run,    \* apply: args.dry_run
    output_given, \* apply: args.output.is_some()
    rj_input,   \* open: the bytes behind the reader handed to DiffFile::open
    rj_result,  \* open: what DiffFile::open returned, NoReader before the call
    png_buf,    \* png: the buffer handed to write_chunk_png
    png_file,   \* png: the PNG file, <<>> when there is none
    png_result, \* png: what read_png_reader returned
    png_pc,     \* png: "new", "written", "foreign", "read"
    tar_archive, \* tar: the entries of the archive that is indexed
    tar_reader, \* tar: what open_with_index returned, NoTarReader before
    tar_opened, \* tar: what the calls of open_chunk returned so far
    wk_base,    \* worker: the base snapshot behind base_fetcher
    wk_new,     \* worker: the new snapshot behind new_fetcher
    wk_scratch, \* worker: base_buf and new_buf as the closure found them
    wk_bufs,    \* worker: base_buf and new_buf of for_each_with
    wk_msg,     \* worker: the message handed to tx.send, None before
    wk_file,    \* worker: the diff file holding the entry of the message
    wk_result,  \* worker: what applying the file to the base returned
    wk_pc,      \* worker: "idle", "start", "sent", "written", "applied"
    dir_files,  \* directory: the paths of the regular files under the root
    dir_chunks, \* directory: DirChunkFetcher.chunks, None before new
    dir_fetched, \* directory: the positions of chunks_iter fetched so far
    dir_absent, \* directory: the fetched positions whose fetch returned false
    rs_base,    \* restore: the base snapshot behind base_fetcher
    rs_diffs,   \* restore: args.diffs, two diff files or more
    rs_no_checksum, \* restore: args.no_checksum
    rs_store,   \* restore: memory_store, slot index to None or Some(frame)
    rs_before,  \* history: memory_store as the current step found it
    rs_output,  \* restore: the output directory, chunk number to content
    rs_i,       \* restore: the number of the diff being applied, from 1
    rs_loop,    \* restore: the loop of the step, "changed", "unchanged", "write"
    rs_todo,    \* restore: the chunk numbers the loop has not yet handed out
    rs_log,     \* history: the closure calls so far, [i, loop, n]
    rs_pc,      \* restore: "idle", "start", "step", "between", "done", "exit"
    lut_table,  \* palette: PALETTE_LOOKUP_TABLE, None or Some(the leaked Vec)
    lut_pc,     \* palette: per thread its position in PixelMapper::new
    lut_left,   \* palette: per thread the PNGs it has still to decode
    lut_seen,   \* palette: per thread what its last read of the static gave
    lut_writes, \* history: the threads that assigned the static, in order
    up_info,    \* unpack: the PNG being decoded (bit depth, palette, tRNS, data)
    up_junk,    \* unpack: index_buf as read_png_reader was handed it
    up_buf,     \* unpack: index_buf
    up_j,       \* unpack: how many iterations of the loop have run
    up_pc,      \* unpack: "idle", "new", "loop", "done"
    rt_dir,     \* retrieve: the names of the .diff files in args.diff_dir
    rt_base,    \* retrieve: the name in the file name of args.base_snapshot
    rt_at,      \* retrieve: args.at, None or Some(name)
    rt_apply,   \* retrieve: apply_list, None before it is made
    rt_applied, \* history: the names the loop over apply_list has applied
    rt_pc,      \* retrieve: "idle", "start", "applying", "done", "error", "panic"
    ix_dir,     \* index db: diff name to the index of that diff file
    ix_db,      \* index db: the database, a set of [key, value]
    ix_unflushed, \* index db: the keys written since the last flush
    ix_track,   \* index db: processed.txt, a sequence of names and newlines
    ix_processed, \* index db: the set `processed` read when the run started
    ix_sent,    \* index db: the names the reading thread has sent
    ix_chan,    \* index db: the names in the channel
    ix_cur,     \* index db: the name the receiving loop is working on
    ix_main,    \* index db: position of the receiving loop
    ix_handled, \* history: the names received in this run
    ix_runs,    \* index db: how many runs have started
    ix_pc,      \* index db: "idle", "ready", "running", "done", "crashed"
    ck_chunks,  \* checksum: the chunks of the snapshot, chunk number to data
    ck_todo,    \* checksum: the chunk numbers no worker has added yet
    ck_list,    \* checksum: Checksum.chunks_hash_list
    ck_result,  \* checksum: what compute returned, None before
    ck_pc       \* checksum: "idle", "adding", "done"

pixVars == <<pix_base, pix_new, pix_buf, pix_mask, pix_pc>>
dwVars == <<diff_file, dw_pc, out_file, added>>
rdVars == <<reader, rd>>
ddVars == <<base_snap, new_snap, new_chunks, next_chunk, workers, panicked, chan,
           sent, passed, fin, diff_pc, final_file>>

apVars == <<snapshots, diffs, no_checksum, memory_store, output, diff_i, ap_pc,
           dry_run, output_given>>

rjVars == <<rj_input, rj_result>>

\* the variables of the specifications that follow the first five
pngVars == <<png_buf, png_file, png_result, png_pc>>

tarVars == <<tar_archive, tar_reader, tar_opened>>

wkVars == <<wk_base, wk_new, wk_scratch, wk_bufs, wk_msg, wk_file, wk_result,
           wk_pc>>

\* the variables of the specifications of the worker and the enumeration
dirVars == <<dir_files, dir_chunks, dir_fetched, dir_absent>>

rsVars == <<rs_base, rs_diffs, rs_no_checksum, rs_store, rs_before, rs_output,
           rs_i, rs_loop, rs_todo, rs_log, rs_pc>>

lutVars == <<lut_table, lut_pc, lut_left, lut_seen, lut_writes>>

upVars == <<up_info, up_junk, up_buf, up_j, up_pc>>

rtVars == <<rt_dir, rt_base, rt_at, rt_apply, rt_applied, rt_pc>>

ixVars == <<ix_dir, ix_db, ix_unflushed, ix_track, ix_processed, ix_sent, ix_chan, ix_cur, ix_main, ix_handled, ix_runs, ix_pc>>

ckVars == <<ck_chunks, ck_todo, ck_list, ck_result, ck_pc>>

\* the variables of the specifications of the last part
zVars == <<lutVars, upVars, rtVars, ixVars, ckVars>>

yVars == <<wkVars, dirVars, rsVars, zVars>>

xVars == <<rjVars, pngVars, tarVars, yVars>>

vars == <<pixVars, dwVars, rdVars, ddVars, apVars, xVars>>

NoWriter == [writer |-> NewStream(0), current_diff_data_pos |-> 0,
             index_entries |-> <<>>]
NoReader == [ok |-> FALSE, err |-> "closed", index_pos |-> 0, entry_count |-> 0]
NoOp == [op |-> "none"]

PixIdle ==
    /\ pix_base = <<>> /\ pix_new = <<>> /\ pix_buf = <<>>
    /\ pix_mask = <<>> /\ pix_pc = "idle"

DwIdle ==
    /\ diff_file = NoWriter /\ dw_pc = "new" /\ out_file = <<>> /\ added = <<>>

RdIdle == reader = NoReader /\ rd = NoOp

DdIdle ==
    /\ base_snap = EmptyMap /\ new_snap = EmptyMap /\ next_chunk = 0
    /\ workers = <<>> /\ chan = <<>> /\ diff_pc = "idle" /\ final_file = None
    /\ new_chunks = <<>> /\ panicked = {} /\ sent = <<>> /\ passed = <<>>
    /\ fin = <<>>

ApIdle ==
    /\ snapshots = <<>> /\ diffs = <<>> /\ no_checksum = FALSE
    /\ memory_store = EmptyMap /\ output = EmptyMap /\ diff_i = 0
    /\ ap_pc = "idle" /\ dry_run = FALSE /\ output_given = FALSE

RjIdle == rj_input = <<>> /\ rj_result = NoReader

PngIdle ==
    /\ png_buf = <<>> /\ png_file = <<>> /\ png_result = [kind |-> "none"]
    /\ png_pc = "idle"

NoTarReader == [kind |-> "None"]

TarIdle == tar_archive = <<>> /\ tar_reader = NoTarReader /\ tar_opened = {}

WkIdle ==
    /\ wk_base = <<>> /\ wk_new = <<>> /\ wk_scratch = <<>> /\ wk_msg = None
    /\ wk_bufs = <<>> /\ wk_file = <<>> /\ wk_result = [ok |-> FALSE] /\ wk_pc = "idle"

DirIdle ==
    /\ dir_files = {} /\ dir_chunks = None /\ dir_fetched = {} /\ dir_absent = {}

RsIdle ==
    /\ rs_base = <<>> /\ rs_diffs = <<>> /\ rs_no_checksum = FALSE
    /\ rs_store = <<>> /\ rs_before = <<>> /\ rs_output = <<>> /\ rs_i = 0
    /\ rs_loop = "none" /\ rs_todo = {} /\ rs_log = <<>> /\ rs_pc = "idle"

LutIdle ==
    /\ lut_table = None /\ lut_pc = <<>> /\ lut_left = <<>> /\ lut_seen = <<>>
    /\ lut_writes = <<>>

UpIdle ==
    /\ up_info = <<>> /\ up_junk = <<>> /\ up_buf = <<>> /\ up_j = 0
    /\ up_pc = "idle"

RtIdle ==
    /\ rt_dir = {} /\ rt_base = 0 /\ rt_at = None /\ rt_apply = None
    /\ rt_applied = <<>> /\ rt_pc = "idle"

IxIdle ==
    /\ ix_dir = <<>> /\ ix_db = {} /\ ix_unflushed = {} /\ ix_track = <<>>
    /\ ix_processed = {} /\ ix_sent = {} /\ ix_chan = <<>> /\ ix_cur = 0
    /\ ix_main = "none" /\ ix_handled = {} /\ ix_runs = 0 /\ ix_pc = "idle"

CkIdle ==
    /\ ck_chunks = <<>> /\ ck_todo = {} /\ ck_list = <<>> /\ ck_result = None
    /\ ck_pc = "idle"

ZIdle == LutIdle /\ UpIdle /\ RtIdle /\ IxIdle /\ CkIdle

\* the variables of the specifications before the last part, and their rest
wVars == <<pixVars, dwVars, rdVars, ddVars, apVars, rjVars, pngVars, tarVars, wkVars, dirVars, rsVars>>

WIdle ==
    /\ PixIdle /\ DwIdle /\ RdIdle /\ DdIdle /\ ApIdle /\ RjIdle /\ PngIdle
    /\ TarIdle /\ WkIdle /\ DirIdle /\ RsIdle

\* per specification of the last part, the variables it leaves alone
lutRest == <<wVars, upVars, rtVars, ixVars, ckVars>>

LutRestIdle == WIdle /\ UpIdle /\ RtIdle /\ IxIdle /\ CkIdle

upRest == <<wVars, lutVars, rtVars, ixVars, ckVars>>

UpRestIdle == WIdle /\ LutIdle /\ RtIdle /\ IxIdle /\ CkIdle

rtRest == <<wVars, lutVars, upVars, ixVars, ckVars>>

RtRestIdle == WIdle /\ LutIdle /\ UpIdle /\ IxIdle /\ CkIdle

ixRest == <<wVars, lutVars, upVars, rtVars, ckVars>>

IxRestIdle == WIdle /\ LutIdle /\ UpIdle /\ RtIdle /\ CkIdle

ckRest == <<wVars, lutVars, upVars, rtVars, ixVars>>

CkRestIdle == WIdle /\ LutIdle /\ UpIdle /\ RtIdle /\ IxIdle

\* end of the variable groups

YIdle == WkIdle /\ DirIdle /\ RsIdle /\ ZIdle

XIdle == RjIdle /\ PngIdle /\ TarIdle /\ YIdle

PixelBuffers == [1..ChunkLen -> PixelBytes]

(***************************************************************************)
(* Specification of the pixel codec: diff two buffers, then apply the mask *)
(* to the base again.                                                      *)
(***************************************************************************)
PixInit ==
    /\ pix_base \in PixelBuffers
    /\ pix_new \in PixelBuffers
    /\ pix_buf = pix_base
    /\ pix_mask = <<>>
    /\ pix_pc = "start"
    /\ DwIdle /\ RdIdle /\ DdIdle /\ ApIdle /\ XIdle

\* diff_chunk(base_buf, new_buf): the mask replaces the content of base_buf
PixDiff ==
    /\ pix_pc = "start"
    /\ pix_buf' = diff_chunk(pix_buf, pix_new)
    /\ pix_pc' = "diffed"
    /\ UNCHANGED <<pix_base, pix_new, pix_mask, dwVars, rdVars, ddVars, apVars, xVars>>

\* the mask travels as diff data; the base is fetched again into the buffer
PixFetchBase ==
    /\ pix_pc = "diffed"
    /\ pix_mask' = pix_buf
    /\ pix_buf' = pix_base
    /\ pix_pc' = "fetched"
    /\ UNCHANGED <<pix_base, pix_new, dwVars, rdVars, ddVars, apVars, xVars>>

\* apply_chunk(base_buf, raw_diff)
PixApply ==
    /\ pix_pc = "fetched"
    /\ pix_buf' = apply_chunk(pix_buf, pix_mask)
    /\ pix_pc' = "applied"
    /\ UNCHANGED <<pix_base, pix_new, pix_mask, dwVars, rdVars, ddVars, apVars, xVars>>

PixNext == PixDiff \/ PixFetchBase \/ PixApply

SpecPixel == PixInit /\ [][PixNext]_vars

IsCanonical(buf) == \A i \in 1..Len(buf) : buf[i] <= PALETTE_INDEX_MASK

\* C2: for canonical buffers base and new of equal length, applying the mask
\* that diff_chunk derives from (base, new) to base gives exactly new.
C2_DiffRoundTrip ==
    (pix_pc = "applied" /\ IsCanonical(pix_base) /\ IsCanonical(pix_new))
        => pix_buf = pix_new

\* a round trip over canonical buffers with one changed and one kept pixel
C2_Witness ==
    /\ pix_pc = "applied"
    /\ IsCanonical(pix_base) /\ IsCanonical(pix_new)
    /\ \E i, j \in 1..ChunkLen :
          /\ pix_base[i] # pix_new[i]
          /\ pix_base[j] = pix_new[j] /\ pix_base[j] # 0
    /\ \E i \in 1..ChunkLen : pix_base[i] # 0 /\ pix_new[i] = 0

(***************************************************************************)
(* Specification of the diff container: a writer over a stream that never  *)
(* fails takes any sequence of add_entry calls and is finalized; a reader  *)
(* then opens the file and is asked for chunks.                            *)
(***************************************************************************)
MaxEntries == 3

\* chunk numbers given to add_entry and asked of the reader
ChunkNumbers == {<<0, 1>>, <<1, 0>>, <<1, 2>>}

\* (compressed_diff_data, chunk_checksum) pairs given to add_entry
EntryInputs ==
    { [data |-> None,            checksum |-> <<1, 0, 0, 0>>],
      [data |-> Some(<<>>),      checksum |-> <<239, 190, 173, 222>>],
      [data |-> Some(<<7>>),     checksum |-> <<239, 190, 173, 222>>],
      [data |-> Some(<<8, 9>>),  checksum |-> <<1, 0, 0, 0>>] }

CtInit == PixIdle /\ DwIdle /\ RdIdle /\ DdIdle /\ ApIdle /\ XIdle

\* DiffFileWriter::create(writer, Metadata::default())
CtCreate ==
    /\ dw_pc = "new"
    /\ diff_file' = create(NewStream(Unlimited)).w
    /\ dw_pc' = "open"
    /\ UNCHANGED <<out_file, added, pixVars, rdVars, ddVars, apVars, xVars>>

\* diff_file.add_entry(n, data, checksum)
CtAddEntry(n, inp) ==
    /\ dw_pc = "open"
    /\ Len(added) < MaxEntries
    /\ diff_file' = add_entry(diff_file, n, inp.data, inp.checksum).w
    /\ added' = Append(added, [n |-> n, data |-> inp.data, checksum |-> inp.checksum])
    /\ UNCHANGED <<dw_pc, out_file, pixVars, rdVars, ddVars, apVars, xVars>>

\* diff_file.finalize()
CtFinalize ==
    /\ dw_pc = "open"
    /\ out_file' = finalize(diff_file).s.disk
    /\ dw_pc' = "finalized"
    /\ UNCHANGED <<diff_file, added, pixVars, rdVars, ddVars, apVars, xVars>>

\* DiffFile::open over the finalized file
CtOpen ==
    /\ dw_pc = "finalized"
    /\ ~reader.ok
    /\ reader' = open(out_file)
    /\ UNCHANGED <<rd, dwVars, pixVars, ddVars, apVars, xVars>>

\* reader.query_chunk(target), in a build with or without overflow checks
CtQuery(target, checks) ==
    /\ reader.ok
    /\ rd' = [op |-> "query", target |-> target, checks |-> checks,
              result |-> query_chunk(out_file, reader, target, checks)]
    /\ UNCHANGED <<reader, dwVars, pixVars, ddVars, apVars, xVars>>

\* reader.collect_index()
CtCollect ==
    /\ reader.ok
    /\ rd' = [op |-> "collect", result |-> collect_index(out_file, reader)]
    /\ UNCHANGED <<reader, dwVars, pixVars, ddVars, apVars, xVars>>

\* reader.open_chunk(entry) for an entry of the collected index, read to its end
CtOpenChunk(n) ==
    /\ reader.ok
    /\ rd.op = "collect" /\ rd.result.ok
    /\ n \in DOMAIN rd.result.map
    /\ rd' = [op |-> "open_chunk", n |-> n, entry |-> rd.result.map[n],
              data |-> open_chunk(out_file, rd.result.map[n])]
    /\ UNCHANGED <<reader, dwVars, pixVars, ddVars, apVars, xVars>>

CtNext ==
    \/ CtCreate
    \/ \E n \in ChunkNumbers, inp \in EntryInputs : CtAddEntry(n, inp)
    \/ CtFinalize
    \/ CtOpen
    \/ \E target \in ChunkNumbers, checks \in BOOLEAN : CtQuery(target, checks)
    \/ CtCollect
    \/ \E n \in ChunkNumbers : CtOpenChunk(n)

SpecContainer == CtInit /\ [][CtNext]_vars

(***************************************************************************)
(* Specification of the diff pipeline (do_diff): workers take chunk        *)
(* numbers from the iterator of the new snapshot and send their messages   *)
(* through the bounded channel; the main thread adds what it receives to   *)
(* the writer, finalizes it and renames the temp file.  The stream of the  *)
(* writer accepts a number of operating-system writes and then fails.      *)
(***************************************************************************)
NumWorkers == 2
ChannelBound == 1
MaxQuota == 8

\* a buffer with the bytes a, b in front, zero behind
Buf(a, b) == [i \in 1..ChunkLen |-> IF i = 1 THEN a ELSE IF i = 2 THEN b ELSE 0]

\* all snapshots over the chunk numbers cs with buffers from bufs
SnapshotsOver(cs, bufs) == UNION {[d -> bufs] : d \in SUBSET cs}

Snapshots == SnapshotsOver({<<0, 1>>, <<1, 0>>}, {Buf(5, 0), Buf(0, 9)})

Quotas == {Unlimited} \cup 0..MaxQuota

DdInit ==
    /\ PixIdle /\ DwIdle /\ RdIdle /\ ApIdle /\ XIdle
    /\ base_snap \in Snapshots
    /\ new_snap \in Snapshots
    /\ new_chunks = chunks_iter(new_snap)
    /\ next_chunk = 0
    /\ workers = [w \in 1..NumWorkers |->
                     [base_buf |-> ZeroBuf, new_buf |-> ZeroBuf, msg |-> None]]
    /\ panicked = {}
    /\ chan = <<>>
    /\ sent = <<>>
    /\ passed = <<>>
    /\ fin = <<>>
    /\ diff_pc = "start"
    /\ final_file = None

\* a channel whose sender the main thread keeps never closes
ChannelKeptOpen == FALSE

\* tx and its clones are dropped: every job of for_each_with has ended, at
\* the end of the iterator or in a panic, and holds no message to send
ChannelClosed ==
    \A w \in 1..NumWorkers :
        /\ workers[w].msg = None
        /\ w \in panicked \/ next_chunk = Len(new_chunks)

\* the temp file is created and opened buffered, DiffFileWriter::create
DdStart(quota) ==
    /\ diff_pc = "start"
    /\ LET r == create(NewStream(quota))
       IN  /\ diff_file' = r.w
           /\ diff_pc' = IF r.ok THEN "running" ELSE "error"
    /\ UNCHANGED <<dw_pc, out_file, added, base_snap, new_snap, new_chunks,
                   next_chunk, workers, panicked, chan, sent, passed, fin,
                   final_file, pixVars, rdVars, apVars, xVars>>

\* a worker takes the next chunk number and runs the closure up to tx.send
DdWorkerTake(w) ==
    /\ diff_pc = "running"
    /\ w \notin panicked
    /\ workers[w].msg = None
    /\ next_chunk < Len(new_chunks)
    /\ LET n == new_chunks[next_chunk + 1]
           st == worker_step(base_snap, new_snap, n,
                             workers[w].base_buf, workers[w].new_buf)
       IN  /\ st.present
           /\ workers' = [workers EXCEPT ![w] =
                             [base_buf |-> st.base_buf, new_buf |-> st.new_buf,
                              msg |-> Some(st.msg)]]
    /\ next_chunk' = next_chunk + 1
    /\ UNCHANGED <<dwVars, base_snap, new_snap, new_chunks, panicked, chan, sent,
                   passed, fin, diff_pc, final_file, pixVars, rdVars, apVars,
                   xVars>>

\* a worker takes the next chunk number and assert!(present) fails: the
\* panic ends the job of this worker, the others run on
DdWorkerPanic(w) ==
    /\ diff_pc = "running"
    /\ w \notin panicked
    /\ workers[w].msg = None
    /\ next_chunk < Len(new_chunks)
    /\ ~fetch(new_snap, new_chunks[next_chunk + 1], workers[w].new_buf).present
    /\ panicked' = panicked \cup {w}
    /\ next_chunk' = next_chunk + 1
    /\ UNCHANGED <<dwVars, base_snap, new_snap, new_chunks, workers, chan, sent,
                   passed, fin, diff_pc, final_file, pixVars, rdVars, apVars,
                   xVars>>

\* a send that does not wait for room in the channel
DdWorkerSendNoWait(w) ==
    /\ diff_pc = "running"
    /\ workers[w].msg # None
    /\ chan' = Append(chan, workers[w].msg[1])
    /\ sent' = Append(sent, workers[w].msg[1])
    /\ workers' = [workers EXCEPT ![w].msg = None]
    /\ UNCHANGED <<dwVars, base_snap, new_snap, new_chunks, next_chunk, panicked,
                   passed, fin, diff_pc, final_file, pixVars, rdVars, apVars,
                   xVars>>

\* tx.send returns once the channel has room
DdWorkerSend(w) ==
    /\ diff_pc = "running"
    /\ workers[w].msg # None
    /\ Len(chan) < ChannelBound
    /\ chan' = Append(chan, workers[w].msg[1])
    /\ sent' = Append(sent, workers[w].msg[1])
    /\ workers' = [workers EXCEPT ![w].msg = None]
    /\ UNCHANGED <<dwVars, base_snap, new_snap, new_chunks, next_chunk, panicked,
                   passed, fin, diff_pc, final_file, pixVars, rdVars, apVars,
                   xVars>>

\* the main thread receives a message and calls add_entry; an error returns
DdRecv ==
    /\ diff_pc = "running"
    /\ chan # <<>>
    /\ LET m == Head(chan)
           r == add_entry(diff_file, m.n, m.diff, m.checksum)
       IN  /\ diff_file' = r.w
           /\ added' = IF r.ok
                       THEN Append(added, [n |-> m.n, data |-> m.diff,
                                           checksum |-> m.checksum])
                       ELSE added
           /\ diff_pc' = IF r.ok THEN "running" ELSE "error"
    /\ passed' = Append(passed, Head(chan))
    /\ chan' = Tail(chan)
    /\ UNCHANGED <<dw_pc, out_file, base_snap, new_snap, new_chunks, next_chunk,
                   workers, panicked, sent, fin, final_file, pixVars, rdVars,
                   apVars, xVars>>

\* a finalize that does not wait for the channel to close
DdFinalizeEarly ==
    /\ diff_pc = "running"
    /\ LET r == finalize(diff_file)
       IN  /\ diff_file' = [diff_file EXCEPT !.writer = r.s]
           /\ out_file' = r.s.disk
           /\ fin' = Append(fin, r.ok)
           /\ diff_pc' = IF r.ok THEN "finalized" ELSE "error"
    /\ UNCHANGED <<dw_pc, added, base_snap, new_snap, new_chunks, next_chunk,
                   workers, panicked, chan, sent, passed, final_file, pixVars,
                   rdVars, apVars, xVars>>

\* the channel is closed and drained: diff_file.finalize()?
DdFinalize ==
    /\ diff_pc = "running"
    /\ chan = <<>>
    /\ ChannelClosed
    /\ LET r == finalize(diff_file)
       IN  /\ diff_file' = [diff_file EXCEPT !.writer = r.s]
           /\ out_file' = r.s.disk
           /\ fin' = Append(fin, r.ok)
           /\ diff_pc' = IF r.ok THEN "finalized" ELSE "error"
    /\ UNCHANGED <<dw_pc, added, base_snap, new_snap, new_chunks, next_chunk,
                   workers, panicked, chan, sent, passed, final_file, pixVars,
                   rdVars, apVars, xVars>>

\* temp_file.persist(output): the temp file is renamed to the output path
DdPersist ==
    /\ diff_pc = "finalized"
    /\ final_file' = Some(out_file)
    /\ diff_pc' = "done"
    /\ UNCHANGED <<dwVars, base_snap, new_snap, new_chunks, next_chunk, workers,
                   panicked, chan, sent, passed, fin, pixVars, rdVars, apVars,
                   xVars>>

DdNext ==
    \/ \E quota \in Quotas : DdStart(quota)
    \/ \E w \in 1..NumWorkers : DdWorkerTake(w)
    \/ \E w \in 1..NumWorkers : DdWorkerSend(w)
    \/ DdRecv
    \/ DdFinalize
    \/ DdPersist

SpecDiff == DdInit /\ [][DdNext]_vars

(***************************************************************************)
(* Specification of the diff pipeline over a new snapshot whose directory  *)
(* holds stray files: chunks_iter yields chunk numbers fetch does not      *)
(* find, and the worker that takes one panics.                             *)
(***************************************************************************)
\* what collect_chunks lists for a directory with the chunk files of snap
\* and files such as x/y.txt for the chunk numbers of stray
ChunkLists(snap) ==
    {SortedKeys(DOMAIN snap \cup stray) :
        stray \in SUBSET ({<<0, 1>>, <<1, 0>>} \ DOMAIN snap)}

PlInit ==
    /\ PixIdle /\ DwIdle /\ RdIdle /\ ApIdle /\ XIdle
    /\ base_snap \in Snapshots
    /\ new_snap \in Snapshots
    /\ new_chunks \in ChunkLists(new_snap)
    /\ next_chunk = 0
    /\ workers = [w \in 1..NumWorkers |->
                     [base_buf |-> ZeroBuf, new_buf |-> ZeroBuf, msg |-> None]]
    /\ panicked = {}
    /\ chan = <<>>
    /\ sent = <<>>
    /\ passed = <<>>
    /\ fin = <<>>
    /\ diff_pc = "start"
    /\ final_file = None

PlNext ==
    \/ \E quota \in Quotas : DdStart(quota)
    \/ \E w \in 1..NumWorkers : DdWorkerTake(w)
    \/ \E w \in 1..NumWorkers : DdWorkerPanic(w)
    \/ \E w \in 1..NumWorkers : DdWorkerSend(w)
    \/ DdRecv
    \/ DdFinalize
    \/ DdPersist

SpecPipeline == PlInit /\ [][PlNext]_vars

\* the pipeline over a stream that never fails
PfInit == PlInit

PfNext ==
    \/ DdStart(Unlimited)
    \/ \E w \in 1..NumWorkers : DdWorkerTake(w)
    \/ \E w \in 1..NumWorkers : DdWorkerPanic(w)
    \/ \E w \in 1..NumWorkers : DdWorkerSend(w)
    \/ DdRecv
    \/ DdFinalize
    \/ DdPersist

\* the states in which DdWorkerTake(w) can be taken
TakeEnabled(w) ==
    /\ diff_pc = "running"
    /\ w \notin panicked
    /\ workers[w].msg = None
    /\ next_chunk < Len(new_chunks)
    /\ fetch(new_snap, new_chunks[next_chunk + 1], workers[w].new_buf).present

\* the states in which DdFinalize can be taken
FinalizeEnabled == diff_pc = "running" /\ chan = <<>> /\ ChannelClosed

\* every thread that can take a step is scheduled in the end: the main
\* thread and the workers are threads of the operating system.  Weak
\* fairness of DdStart, DdFinalize and DdWorkerTake is written out, with
\* the guard of the action for ENABLED
SpecPipelineFair ==
    /\ PfInit /\ [][PfNext]_vars
    /\ []<>(diff_pc # "start") \/ []<><<DdStart(Unlimited)>>_vars
    /\ WF_vars(DdRecv)
    /\ []<>(~FinalizeEnabled) \/ []<><<DdFinalize>>_vars
    /\ WF_vars(DdPersist)
    /\ \A w \in 1..NumWorkers :
          /\ []<>(~TakeEnabled(w)) \/ []<><<DdWorkerTake(w)>>_vars
          /\ WF_vars(DdWorkerPanic(w))
          /\ WF_vars(DdWorkerSend(w))


(***************************************************************************)
(* Specification of apply::main over the diffs the pipeline makes of a     *)
(* sequence of snapshots.                                                  *)
(***************************************************************************)
MaxDiffs == 3

\* the snapshots apply is run over: the second chunk has one content
ApSnapshots ==
    {f \in Snapshots : <<1, 0>> \in DOMAIN f => f[<<1, 0>>] = Buf(5, 0)}

\* the diff files D1..Dk of the snapshots S0..Sk
DiffsOf(snaps) == [i \in 1..(Len(snaps) - 1) |-> DiffFileOf(snaps[i], snaps[i + 1])]

ApInit ==
    /\ PixIdle /\ DwIdle /\ RdIdle /\ DdIdle /\ XIdle
    /\ \E k \in 1..MaxDiffs : snapshots \in [1..(k + 1) -> ApSnapshots]
    /\ diffs = DiffsOf(snapshots)
    /\ no_checksum \in BOOLEAN
    /\ dry_run = FALSE
    /\ output_given = TRUE
    /\ memory_store = EmptyMap
    /\ output = EmptyMap
    /\ diff_i = 0
    /\ ap_pc = "start"

\* neither --dry-run nor --output: main warns and calls exit(1)
ArgsRefused == ~dry_run /\ ~output_given

\* args.output after `if args.dry_run { args.output = None }`, as is_some()
UseOutput == output_given /\ ~dry_run

\* args.diffs.len() == 1: the only diff is applied straight to the output
ApSingle ==
    /\ ap_pc = "start"
    /\ Len(diffs) = 1
    /\ IF ArgsRefused
       THEN ap_pc' = "exit" /\ UNCHANGED <<output, diff_i>>
       ELSE LET r == apply_1st_diff(FALSE, memory_store, snapshots[1], diffs[1],
                                    UseOutput, no_checksum)
            IN  /\ ap_pc' = IF r.ok THEN "done" ELSE "exit"
                /\ output' \in IF r.ok THEN {r.output} ELSE r.partial
                /\ diff_i' = 1
    /\ UNCHANGED <<snapshots, diffs, no_checksum, memory_store, dry_run,
                   output_given, pixVars, dwVars, rdVars, ddVars, xVars>>

\* the first of several diffs fills the memory store
ApFirst ==
    /\ ap_pc = "start"
    /\ Len(diffs) > 1
    /\ IF ArgsRefused
       THEN ap_pc' = "exit" /\ UNCHANGED <<memory_store, diff_i>>
       ELSE LET r == apply_1st_diff(TRUE, memory_store, snapshots[1], diffs[1],
                                    FALSE, no_checksum)
            IN  /\ ap_pc' = IF r.ok THEN "applying" ELSE "exit"
                /\ memory_store' = r.memory
                /\ diff_i' = 1
    /\ UNCHANGED <<snapshots, diffs, no_checksum, output, dry_run, output_given,
                   pixVars, dwVars, rdVars, ddVars, xVars>>

\* an intermediate diff is applied to the memory store
ApIntermediate ==
    /\ ap_pc = "applying"
    /\ diff_i + 1 < Len(diffs)
    /\ LET r == apply_non_1st_diff(memory_store, diffs[diff_i + 1], FALSE,
                                   no_checksum)
       IN  /\ ap_pc' = IF r.ok THEN "applying" ELSE "exit"
           /\ memory_store' = r.memory
    /\ diff_i' = diff_i + 1
    /\ UNCHANGED <<snapshots, diffs, no_checksum, output, dry_run, output_given,
                   pixVars, dwVars, rdVars, ddVars, xVars>>

\* the last diff is applied and the chunks of its index are written out
ApLast ==
    /\ ap_pc = "applying"
    /\ diff_i + 1 = Len(diffs)
    /\ LET r == apply_non_1st_diff(memory_store, diffs[diff_i + 1], UseOutput,
                                   no_checksum)
       IN  /\ ap_pc' = IF r.ok THEN "done" ELSE "exit"
           /\ memory_store' = r.memory
           /\ output' \in IF r.ok THEN {r.output} ELSE r.partial
    /\ diff_i' = diff_i + 1
    /\ UNCHANGED <<snapshots, diffs, no_checksum, dry_run, output_given,
                   pixVars, dwVars, rdVars, ddVars, xVars>>

ApNext == ApSingle \/ ApFirst \/ ApIntermediate \/ ApLast

SpecApply == ApInit /\ [][ApNext]_vars

(***************************************************************************)
(* Specification of apply over any base and any list of diff files: the    *)
(* files need not come from consecutive snapshots, and a payload may hold  *)
(* fewer or more bytes than a chunk.  Every setting of --no-checksum,      *)
(* --dry-run and --output is run.                                          *)
(***************************************************************************)
AnyChunk == <<0, 1>>

\* the base snapshots: without the chunk, or with one of two contents
AnyBases == SnapshotsOver({AnyChunk}, {Buf(5, 0), Buf(0, 9)})

\* a diff file of one changed entry whose payload is the compressed mask
MaskFileOf(n, mask, checksum) ==
    finalize(add_entry(create(NewStream(Unlimited)).w, n,
                       Some(zstd_encode(mask)), checksum).w).s.disk

\* a mask one byte short of a chunk, and one a byte longer than a chunk
ShortMask == [i \in 1..(ChunkLen - 1) |-> MUTATION_MASK + 5]
LongMask == [i \in 1..(ChunkLen + 1) |-> IF i = 2 THEN 0 ELSE MUTATION_MASK + 5]

\* the diff files: of a new chunk, of an unchanged chunk, of a changed
\* chunk, and the two whose payload has the wrong length
AnyDiffFiles ==
    {DiffFileOf(p[1], p[2]) :
        p \in {<<EmptyMap, [n \in {AnyChunk} |-> Buf(5, 0)]>>,
               <<[n \in {AnyChunk} |-> Buf(0, 9)], [n \in {AnyChunk} |-> Buf(0, 9)]>>,
               <<[n \in {AnyChunk} |-> Buf(0, 9)], [n \in {AnyChunk} |-> Buf(5, 0)]>>}}
    \cup {MaskFileOf(AnyChunk, mask, chunk_checksum(Buf(5, 0))) :
             mask \in {ShortMask, LongMask}}

AaInit ==
    /\ PixIdle /\ DwIdle /\ RdIdle /\ DdIdle /\ XIdle
    /\ \E b \in AnyBases : snapshots = <<b>>
    /\ \E k \in 1..MaxDiffs : diffs \in [1..k -> AnyDiffFiles]
    /\ no_checksum \in BOOLEAN
    /\ dry_run \in BOOLEAN
    /\ output_given \in BOOLEAN
    /\ memory_store = EmptyMap
    /\ output = EmptyMap
    /\ diff_i = 0
    /\ ap_pc = "start"

SpecApplyAny == AaInit /\ [][ApNext]_vars

(***************************************************************************)
(* Specification of the tar index: any archive of up to MaxTarEntries      *)
(* entries is indexed, and a chunk is opened through the index.            *)
(***************************************************************************)
MaxTarEntries == 3

DotPng == <<".", "p", "n", "g">>

\* paths that match the pattern, with chunk numbers (0, 1), (1, 0) and,
\* with a number that is no u16, (70000, 1)
MatchingPaths ==
    {<<"r", "/", "0", "/", "1">> \o DotPng,
     <<"r", "/", "1", "/", "0">> \o DotPng,
     <<"r", "/", "7", "0", "0", "0", "0", "/", "1">> \o DotPng}

\* paths that do not match the pattern
ForeignPaths ==
    {<<"r", "/", "a", ".", "t", "x", "t">>,
     <<"r", "/", "0", "/", "x">> \o DotPng}

TarEntries ==
    {[type |-> "Directory", path |-> <<"r", "/">>, size |-> 0],
     [type |-> "Symlink", path |-> <<"r", "/", "l">>, size |-> 0]}
    \cup [type : {"Regular"}, path : MatchingPaths \cup ForeignPaths,
          size : {0, 700}]

TarChunkNumbers == {<<0, 1>>, <<1, 0>>}

TarInit ==
    /\ PixIdle /\ DwIdle /\ RdIdle /\ DdIdle /\ ApIdle /\ RjIdle /\ PngIdle
    /\ YIdle
    /\ \E k \in 0..MaxTarEntries : tar_archive \in [1..k -> TarEntries]
    /\ tar_reader = NoTarReader
    /\ tar_opened = {}

\* ChunksTarReader::open_with_index(path)
TarIndex ==
    /\ tar_reader = NoTarReader
    /\ tar_reader' = index_chunks(tar_archive)
    /\ UNCHANGED <<tar_archive, tar_opened, pixVars, dwVars, rdVars, ddVars,
                   apVars, rjVars, pngVars, yVars>>

\* reader.open_chunk(chunk_number)
TarOpenChunk ==
    /\ tar_reader.kind = "Ok"
    /\ tar_opened = {}
    /\ \E n \in TarChunkNumbers :
          tar_opened' = {[n |-> n, range |-> tar_open_chunk(tar_reader, n)]}
    /\ UNCHANGED <<tar_archive, tar_reader, pixVars, dwVars, rdVars, ddVars,
                   apVars, rjVars, pngVars, yVars>>

TarNext == TarIndex \/ TarOpenChunk

SpecTar == TarInit /\ [][TarNext]_vars


(***************************************************************************)
(* Specification of DiffFile::open over arbitrary input: files the writer  *)
(* made, cut short at any length and with bytes of the magic and of the    *)
(* version field replaced.                                                 *)
(***************************************************************************)
\* file with the byte at offset e[1] (from 1) replaced by e[2]
SetByte(file, e) == [i \in 1..Len(file) |-> IF i = e[1] THEN e[2] ELSE file[i]]

NoEdit == <<0, 0>>
MagicEdits == {NoEdit} \cup ({1, 6, 11} \X {0, 120})
VersionEdits == {NoEdit, <<12, 0>>, <<12, 2>>, <<12, 4>>, <<13, 1>>}

\* an empty diff file and one with a changed chunk
WrittenFiles ==
    {DiffFileOf(EmptyMap, EmptyMap),
     DiffFileOf(EmptyMap, [n \in {<<0, 1>>} |-> Buf(5, 0)])}

RjInputs ==
    UNION {{SubSeq(SetByte(SetByte(f, me), ve), 1, k) :
               me \in MagicEdits, ve \in VersionEdits, k \in 0..Len(f)} :
           f \in WrittenFiles}

RjInit ==
    /\ PixIdle /\ DwIdle /\ RdIdle /\ DdIdle /\ ApIdle /\ PngIdle /\ TarIdle
    /\ YIdle
    /\ rj_input \in RjInputs
    /\ rj_result = NoReader

\* DiffFile::open(reader)
RjOpen ==
    /\ rj_result = NoReader
    /\ rj_result' = open(rj_input)
    /\ UNCHANGED <<rj_input, pixVars, dwVars, rdVars, ddVars, apVars, pngVars,
                   tarVars, yVars>>

RjNext == RjOpen

SpecOpen == RjInit /\ [][RjNext]_vars


(***************************************************************************)
(* Specification of the PNG codec: a buffer is written by write_chunk_png  *)
(* and read back, or a PNG made elsewhere (its own palette, tRNS and bit   *)
(* depth) is read.  A chunk has PngLen pixels, a multiple of 8 as the      *)
(* 1000 x 1000 chunk is, so that rows pack without padding.                *)
(***************************************************************************)
PngLen == 8

\* buffers whose first pixel takes every palette index and some bytes above
PngBuffers ==
    {[i \in 1..PngLen |-> IF i = 1 THEN a ELSE IF i = 2 THEN b ELSE 0] :
        a \in 0..63 \cup {64, 200}, b \in {0, 1, 63}}

\* local palettes: colours of the global palette in another order, a colour
\* that is not in the global palette, more than 64 entries
LocalPalettes ==
    {<<<<255, 255, 255>>, <<0, 0, 0>>, <<237, 28, 36>>>>,
     <<<<0, 0, 0>>, <<1, 2, 3>>>>,
     GLOBAL_PALETTE,
     GLOBAL_PALETTE \o <<<<60, 60, 60>>>>}

LocalTrns == {None, Some(<<0>>), Some(<<255, 0>>)}

PackedBytes == {0, 1, 2, 27, 180}

ForeignPngs ==
    {[bit_depth |-> d, palette |-> pal, trns |-> t,
      data |-> [i \in 1..((PngLen * d) \div 8) |-> IF i = 1 THEN a ELSE b]] :
        d \in {1, 2, 4, 8}, pal \in LocalPalettes, t \in LocalTrns,
        a \in PackedBytes, b \in {0, 1}}

PngInit ==
    /\ PixIdle /\ DwIdle /\ RdIdle /\ DdIdle /\ ApIdle /\ RjIdle /\ TarIdle
    /\ YIdle
    /\ \/ png_buf \in PngBuffers /\ png_file = <<>> /\ png_pc = "new"
       \/ png_buf = <<>> /\ png_file \in ForeignPngs /\ png_pc = "foreign"
    /\ png_result = [kind |-> "none"]

\* write_chunk_png(path, buf)
PngWrite ==
    /\ png_pc = "new"
    /\ png_file' = write_chunk_png(png_buf)
    /\ png_pc' = "written"
    /\ UNCHANGED <<png_buf, png_result, pixVars, dwVars, rdVars, ddVars, apVars,
                   rjVars, tarVars, yVars>>

\* read_png(path, index_buf) into a fresh chunk buffer
PngRead ==
    /\ png_pc \in {"written", "foreign"}
    /\ png_result.kind = "none"
    /\ png_result' = read_png_reader(png_file, [i \in 1..PngLen |-> 0])
    /\ UNCHANGED <<png_buf, png_file, png_pc, pixVars, dwVars, rdVars, ddVars,
                   apVars, rjVars, tarVars, yVars>>

PngNext == PngWrite \/ PngRead

SpecPng == PngInit /\ [][PngNext]_vars


(***************************************************************************)
(* Specification of apply_chunk over arbitrary masks.                      *)
(***************************************************************************)
\* mask bytes: with and without the mutation bit, with and without bit 7
MaskBytes == {0, 5, 63, 64, 69, 127, 133, 192, 255}

MaskBuffers == [1..ChunkLen -> MaskBytes]

MkInit ==
    /\ pix_base \in PixelBuffers
    /\ pix_new = <<>>
    /\ pix_buf = pix_base
    /\ pix_mask \in MaskBuffers
    /\ pix_pc = "start"
    /\ DwIdle /\ RdIdle /\ DdIdle /\ ApIdle /\ XIdle

\* apply_chunk(base, diff_data)
MkApply ==
    /\ pix_pc = "start"
    /\ pix_buf' = apply_chunk(pix_buf, pix_mask)
    /\ pix_pc' = "masked"
    /\ UNCHANGED <<pix_base, pix_new, pix_mask, dwVars, rdVars, ddVars, apVars, xVars>>

MkNext == MkApply

SpecMask == MkInit /\ [][MkNext]_vars


(***************************************************************************)
(* Specification of one worker of do_diff over one chunk, and of the       *)
(* entry it sends: the closure is run over scratch buffers an earlier      *)
(* chunk has used, the writer puts the message into a diff file, and apply *)
(* is run with that file over the same base.  The buffers are those the    *)
(* fetchers can return: canonical bytes, and 255 for a pixel whose colour  *)
(* is not in the palette.                                                  *)
(***************************************************************************)
FetchedBytes == {0, 5, 255}

FetchedBuffers == [1..ChunkLen -> FetchedBytes]

\* what the buffers of for_each_with hold when the closure is entered: the
\* zeros of chunk_buf!() or what an earlier chunk left, a mask in base_buf
ScratchBuffers == {ZeroBuf, [i \in 1..ChunkLen |-> MUTATION_MASK + 5]}

WkInit ==
    /\ PixIdle /\ DwIdle /\ RdIdle /\ DdIdle /\ ApIdle
    /\ RjIdle /\ PngIdle /\ TarIdle /\ DirIdle /\ RsIdle /\ ZIdle
    /\ wk_base \in SnapshotsOver({AnyChunk}, FetchedBuffers)
    /\ wk_new \in [{AnyChunk} -> FetchedBuffers]
    /\ wk_scratch \in [{"base_buf", "new_buf"} -> ScratchBuffers]
    /\ wk_bufs = wk_scratch
    /\ wk_msg = None
    /\ wk_file = <<>>
    /\ wk_result = [ok |-> FALSE]
    /\ wk_pc = "start"

\* the closure of for_each_with up to tx.send, archive-tool.rs 305-324
WkClosure ==
    /\ wk_pc = "start"
    /\ LET st == worker_step(wk_base, wk_new, AnyChunk,
                             wk_bufs["base_buf"], wk_bufs["new_buf"])
       IN  /\ st.present
           /\ wk_msg' = Some(st.msg)
           /\ wk_bufs' = [b \in {"base_buf", "new_buf"} |->
                             IF b = "base_buf" THEN st.base_buf ELSE st.new_buf]
    /\ wk_pc' = "sent"
    /\ UNCHANGED <<wk_base, wk_new, wk_scratch, wk_file, wk_result, pixVars, dwVars, rdVars,
                   ddVars, apVars, rjVars, pngVars, tarVars, dirVars,
                   rsVars, zVars>>

\* the main thread: add_entry of the message, then finalize
WkWrite ==
    /\ wk_pc = "sent"
    /\ LET m == wk_msg[1]
       IN  wk_file' = finalize(add_entry(create(NewStream(Unlimited)).w,
                                         m.n, m.diff, m.checksum).w).s.disk
    /\ wk_pc' = "written"
    /\ UNCHANGED <<wk_base, wk_new, wk_scratch, wk_bufs, wk_msg, wk_result, pixVars,
                   dwVars, rdVars, ddVars, apVars, rjVars, pngVars, tarVars,
                   dirVars, rsVars, zVars>>

\* apply with the file as its only diff, over the base it was made from
WkApply ==
    /\ wk_pc = "written"
    /\ wk_result' = apply_1st_diff(FALSE, EmptyMap, wk_base, wk_file, TRUE, FALSE)
    /\ wk_pc' = "applied"
    /\ UNCHANGED <<wk_base, wk_new, wk_scratch, wk_bufs, wk_msg, wk_file, pixVars,
                   dwVars, rdVars, ddVars, apVars, rjVars, pngVars, tarVars,
                   dirVars, rsVars, zVars>>

WkNext == WkClosure \/ WkWrite \/ WkApply

SpecWorker == WkInit /\ [][WkNext]_vars


(***************************************************************************)
(* Specification of a directory snapshot: DirChunkFetcher::new indexes the *)
(* directory, and every chunk number chunks_iter yields is fetched, as the *)
(* workers of do_diff do with the new snapshot.                            *)
(***************************************************************************)
\* chunk files, a file beside a chunk file, a file below a directory named
\* like a chunk, a directory with a zero in front of its number, and a
\* directory whose name is no number
DirPaths ==
    {<<"0", "/", "1", ".", "p", "n", "g">>,
     <<"1", "/", "0", ".", "p", "n", "g">>,
     <<"0", "/", "1", ".", "t", "x", "t">>,
     <<"0", "/", "1", "/", "2", ".", "p", "n", "g">>,
     <<"0", "1", "/", "0", ".", "p", "n", "g">>,
     <<"x", "/", "0", ".", "p", "n", "g">>}

DirInit ==
    /\ PixIdle /\ DwIdle /\ RdIdle /\ DdIdle /\ ApIdle
    /\ RjIdle /\ PngIdle /\ TarIdle /\ WkIdle /\ RsIdle /\ ZIdle
    /\ dir_files \in SUBSET DirPaths
    /\ dir_chunks = None
    /\ dir_fetched = {}
    /\ dir_absent = {}

\* DirChunkFetcher::new(root, true)
DirNew ==
    /\ dir_chunks = None
    /\ dir_chunks' = Some(collect_chunks(dir_files))
    /\ UNCHANGED <<dir_files, dir_fetched, dir_absent, pixVars, dwVars, rdVars,
                   ddVars, apVars, rjVars, pngVars, tarVars, wkVars, rsVars, zVars>>

\* fetch of the k-th chunk number of chunks_iter
DirFetch(k) ==
    /\ dir_chunks # None
    /\ k \in 1..Len(dir_chunks[1])
    /\ k \notin dir_fetched
    /\ dir_fetched' = dir_fetched \cup {k}
    /\ dir_absent' = IF dir_fetch_present(dir_files, dir_chunks[1][k])
                     THEN dir_absent ELSE dir_absent \cup {k}
    /\ UNCHANGED <<dir_files, dir_chunks, pixVars, dwVars, rdVars, ddVars,
                   apVars, rjVars, pngVars, tarVars, wkVars, rsVars, zVars>>

DirNext == DirNew \/ \E k \in 1..Cardinality(DirPaths) : DirFetch(k)

SpecDir == DirInit /\ [][DirNext]_vars

(***************************************************************************)
(* Specification of the global palette lookup table: the threads of a      *)
(* parallel loop decode PNGs, and every decode runs PixelMapper::new,      *)
(* which reads the static, initializes it when it reads None, and reads it *)
(* again.  The static is a `static mut` read and assigned without any      *)
(* synchronisation: a read that races with the assignment of another       *)
(* thread gives the old value, the new value or a torn one.                *)
(***************************************************************************)
MaxDecodes == 2

\* a read of a fat pointer that another thread was assigning: the slice of
\* no thread's Vec
Torn == Some([by |-> 0, left |-> 0])

\* the Vec that thread t leaks during the decode it is in
LeakedBy(t) == Some([by |-> t, left |-> lut_left[t]])

\* what a read of PALETTE_LOOKUP_TABLE by thread t can give
Readable(t) ==
    {lut_table}
      \cup UNION {{LeakedBy(u), Torn} : u \in {v \in DOMAIN lut_pc \ {t} : lut_pc[v] = "publish"}}

LutInit ==
    /\ LutRestIdle
    /\ lut_table = None
    /\ lut_pc = [t \in 1..NumWorkers |-> "idle"]
    /\ lut_left \in [1..NumWorkers -> 1..MaxDecodes]
    /\ lut_seen = [t \in 1..NumWorkers |-> None]
    /\ lut_writes = <<>>

\* read_png_reader reaches PixelMapper::new
LutEnter(t) ==
    /\ lut_pc[t] = "idle"
    /\ lut_left[t] > 0
    /\ lut_pc' = [lut_pc EXCEPT ![t] = "check"]
    /\ UNCHANGED <<lut_table, lut_left, lut_seen, lut_writes, lutRest>>

\* `if PALETTE_LOOKUP_TABLE.is_none()`
LutCheck(t) ==
    /\ lut_pc[t] = "check"
    /\ \E v \in Readable(t) :
          /\ lut_seen' = [lut_seen EXCEPT ![t] = v]
          /\ lut_pc' = [lut_pc EXCEPT ![t] = IF v = None THEN "build" ELSE "unwrap"]
    /\ UNCHANGED <<lut_table, lut_left, lut_writes, lutRest>>

\* create_palette_lookup_table() and Vec::leak
LutBuild(t) ==
    /\ lut_pc[t] = "build"
    /\ lut_pc' = [lut_pc EXCEPT ![t] = "publish"]
    /\ UNCHANGED <<lut_table, lut_left, lut_seen, lut_writes, lutRest>>

\* `PALETTE_LOOKUP_TABLE = Some(...)`
LutPublish(t) ==
    /\ lut_pc[t] = "publish"
    /\ lut_table' = LeakedBy(t)
    /\ lut_writes' = Append(lut_writes, t)
    /\ lut_pc' = [lut_pc EXCEPT ![t] = "unwrap"]
    /\ UNCHANGED <<lut_left, lut_seen, lutRest>>

\* `PALETTE_LOOKUP_TABLE.unwrap()`, and the decode goes on to its end
LutUnwrap(t) ==
    /\ lut_pc[t] = "unwrap"
    /\ \E v \in Readable(t) : lut_seen' = [lut_seen EXCEPT ![t] = v]
    /\ lut_pc' = [lut_pc EXCEPT ![t] = "idle"]
    /\ lut_left' = [lut_left EXCEPT ![t] = @ - 1]
    /\ UNCHANGED <<lut_table, lut_writes, lutRest>>

LutNext ==
    \E t \in 1..NumWorkers :
        \/ LutEnter(t)
        \/ LutCheck(t)
        \/ LutBuild(t)
        \/ LutPublish(t)
        \/ LutUnwrap(t)

SpecLut == LutInit /\ [][LutNext]_vars

(***************************************************************************)
(* Specification of the expansion of packed rows in read_png_reader: the   *)
(* frame of a PNG of bit depth 1, 2 or 4 is decoded into the head of       *)
(* index_buf and expanded in place, one packed byte per iteration.         *)
(***************************************************************************)
MaxPacked == 3

\* the PNGs: up to MaxPacked packed bytes, under the global palette or a
\* local one
UpInfos ==
    UNION {{[bit_depth |-> d, palette |-> pal, trns |-> None, data |-> bytes] :
               d \in {1, 2, 4},
               pal \in {GLOBAL_PALETTE, <<<<255, 255, 255>>, <<0, 0, 0>>, <<237, 28, 36>>>>},
               bytes \in [1..n -> {1, 27, 180}]} : n \in 1..MaxPacked}

\* the pixels of a PNG of up_info's size
UpPixels(png) == Len(png.data) * (8 \div png.bit_depth)

UpInit ==
    /\ UpRestIdle
    /\ up_info \in UpInfos
    /\ \E v \in {0, 7} : up_junk = [p \in 1..UpPixels(up_info) |-> v]
    /\ up_buf = up_junk
    /\ up_j = 0
    /\ up_pc = "new"

\* reader.next_frame(index_buf)
UpFrame ==
    /\ up_pc = "new"
    /\ up_buf' = [p \in 1..Len(up_buf) |->
                     IF p <= Len(up_info.data) THEN up_info.data[p] ELSE up_buf[p]]
    /\ up_pc' = "loop"
    /\ UNCHANGED <<up_info, up_junk, up_j, upRest>>

\* the loop `for i in 0..png_buf_size`
forward_order(png_buf_size) == [j \in 1..png_buf_size |-> j - 1]

\* the loop `for i in (0..png_buf_size).rev()`: the values of i in order
loop_order(png_buf_size) == [j \in 1..png_buf_size |-> png_buf_size - j]

\* one iteration of the loop: byte i is read, its fields are mapped and
\* written to the pixels i * per .. i * per + per - 1
unpack_iteration(index_buf, i, depth, fast_map) ==
    [p \in 1..Len(index_buf) |->
        IF (p - 1) \div (8 \div depth) = i
        THEN fast_map[BitField(index_buf[i + 1], depth, (p - 1) % (8 \div depth))]
        ELSE index_buf[p]]

UpStep ==
    /\ up_pc = "loop"
    /\ up_buf' = unpack_iteration(up_buf, loop_order(Len(up_info.data))[up_j + 1],
                                  up_info.bit_depth, PixelMapper_new(up_info).fast_map)
    /\ up_j' = up_j + 1
    /\ up_pc' = IF up_j + 1 = Len(up_info.data) THEN "done" ELSE "loop"
    /\ UNCHANGED <<up_info, up_junk, upRest>>

UpNext == UpFrame \/ UpStep

SpecUnpack == UpInit /\ [][UpNext]_vars

(***************************************************************************)
(* Specification of the diff selection of retrieve.  A snapshot name is a  *)
(* timestamp string; names are compared as strings, which is the order of  *)
(* the timestamps, and a name is modelled by a number from 1 to MaxNames.  *)
(***************************************************************************)
MaxNames == 4

\* the elements of a set of names in ascending order
RECURSIVE Ascending(_)
Ascending(names) ==
    IF names = {} THEN <<>>
    ELSE LET least == CHOOSE a \in names : \A b \in names : a <= b
         IN  <<least>> \o Ascending(names \ {least})

\* collect_diff_files(diff_dir): the diff names of the directory, ascending
collect_diff_files(dir) == Ascending(dir)

\* iter().position(|x| x == name): the 0-based position, None when absent
position(list, name) ==
    IF \E q \in 1..Len(list) : list[q] = name
    THEN Some((CHOOSE q \in 1..Len(list) : list[q] = name) - 1)
    ELSE None

\* goal_snapshot: args.at, or the last name of the diff list
goal_snapshot(diff_list, at) == IF at # None THEN at[1] ELSE diff_list[Len(diff_list)]

\* base_start: one past the position of the base name, 0 when it is absent
base_start(diff_list, base_snapshot_name) ==
    IF position(diff_list, base_snapshot_name) # None
    THEN position(diff_list, base_snapshot_name)[1] + 1
    ELSE 0

\* &diff_list[base_start..=dest_snap_pos] behind the two positions: the
\* slice, or a panic when base_start is above dest_snap_pos + 1
slice_inclusive(diff_list, start, end) ==
    IF start > end + 1 THEN [kind |-> "panic", list |-> <<>>]
    ELSE [kind |-> "ok", list |-> SubSeq(diff_list, start + 1, end + 1)]

\* main up to apply_list: [kind, list], kind "ok", "error" or "panic"
select_diffs(dir, base_snapshot_name, at) ==
    IF collect_diff_files(dir) = <<>> THEN [kind |-> "error", list |-> <<>>]
    ELSE IF position(collect_diff_files(dir), goal_snapshot(collect_diff_files(dir), at)) = None
    THEN [kind |-> "error", list |-> <<>>]
    ELSE slice_inclusive(collect_diff_files(dir),
             base_start(collect_diff_files(dir), base_snapshot_name),
             position(collect_diff_files(dir),
                      goal_snapshot(collect_diff_files(dir), at))[1])

RtInit ==
    /\ RtRestIdle
    /\ rt_dir \in SUBSET (1..MaxNames)
    /\ rt_base \in 0..MaxNames
    /\ rt_at \in {None} \cup {Some(a) : a \in 1..MaxNames}
    /\ rt_apply = None
    /\ rt_applied = <<>>
    /\ rt_pc = "start"

\* main from collect_diff_files to apply_list
RtSelect ==
    /\ rt_pc = "start"
    /\ rt_apply' = IF select_diffs(rt_dir, rt_base, rt_at).kind = "ok"
                   THEN Some(select_diffs(rt_dir, rt_base, rt_at).list)
                   ELSE None
    /\ rt_pc' = IF select_diffs(rt_dir, rt_base, rt_at).kind # "ok"
                THEN select_diffs(rt_dir, rt_base, rt_at).kind
                ELSE IF select_diffs(rt_dir, rt_base, rt_at).list = <<>> THEN "done"
                ELSE "applying"
    /\ UNCHANGED <<rt_dir, rt_base, rt_at, rt_applied, rtRest>>

\* one round of `for (idx, name) in apply_list.iter().enumerate()`
RtApply ==
    /\ rt_pc = "applying"
    /\ rt_applied' = Append(rt_applied, rt_apply[1][Len(rt_applied) + 1])
    /\ rt_pc' = IF Len(rt_applied) + 1 = Len(rt_apply[1]) THEN "done" ELSE "applying"
    /\ UNCHANGED <<rt_dir, rt_base, rt_at, rt_apply, rtRest>>

RtNext == RtSelect \/ RtApply

SpecRetrieve == RtInit /\ [][RtNext]_vars

(***************************************************************************)
(* Specification of create_index_db: a thread reads the index of every     *)
(* diff that processed.txt does not list and sends it, the main thread     *)
(* writes each index to the database as one batch, flushes, and appends    *)
(* the name to processed.txt.  The process can be interrupted at any       *)
(* point and run again.  A diff name is a number, the newline that         *)
(* writeln! adds is NL, and processed.txt is the sequence of both.         *)
(***************************************************************************)
MaxIxDiffs == 2
MaxRuns == 3

NL == 0

\* the indexes a diff file can hold: chunk number to entry
IxIndexes(d) ==
    {[n \in c |-> [diff |-> d, n |-> n]] : c \in {{}, {<<0, 1>>}, {<<0, 1>>, <<1, 0>>}}}

\* make_key(diff_name, n, buf): the key of chunk n of the diff
make_key(diff_name, n) == <<diff_name, n>>

\* the WriteBatch of an index: one put per entry
write_batch(diff_name, index) ==
    {[key |-> make_key(diff_name, n), value |-> index[n]] : n \in DOMAIN index}

\* db.write(batch): the puts replace what the keys held
db_write(db, batch) ==
    {r \in db : \A b \in batch : b.key # r.key} \cup batch

\* read_to_string(..).lines(): the lines of a text, the last one without
\* its newline included when it is not empty
RECURSIVE lines_from(_, _)
lines_from(text, line) ==
    IF text = <<>> THEN (IF line = <<>> THEN {} ELSE {line})
    ELSE IF Head(text) = NL THEN {line} \cup lines_from(Tail(text), <<>>)
    ELSE lines_from(Tail(text), Append(line, Head(text)))

lines(text) == lines_from(text, <<>>)

\* processed.contains(x)
processed_contains(processed, x) == <<x>> \in processed

IxInit ==
    /\ IxRestIdle
    /\ ix_dir \in {f \in [1..MaxIxDiffs -> UNION {IxIndexes(d) : d \in 1..MaxIxDiffs}] :
                      \A d \in 1..MaxIxDiffs : f[d] \in IxIndexes(d)}
    /\ ix_db = {}
    /\ ix_unflushed = {}
    /\ ix_track = <<>>
    /\ ix_processed = {}
    /\ ix_sent = {}
    /\ ix_chan = <<>>
    /\ ix_cur = 0
    /\ ix_main = "none"
    /\ ix_handled = {}
    /\ ix_runs = 0
    /\ ix_pc = "ready"

\* create_index_db up to the loop over rx: processed.txt is read, the
\* reading thread is spawned, the database and the track file are opened
IxStart ==
    /\ ix_pc \in {"ready", "done", "crashed"}
    /\ ix_runs < MaxRuns
    /\ ix_processed' = lines(ix_track)
    /\ ix_sent' = {}
    /\ ix_chan' = <<>>
    /\ ix_cur' = 0
    /\ ix_main' = "recv"
    /\ ix_handled' = {}
    /\ ix_runs' = ix_runs + 1
    /\ ix_pc' = "running"
    /\ UNCHANGED <<ix_dir, ix_db, ix_unflushed, ix_track, ixRest>>

\* the closure of the reading thread over diff x: read_index and tx.send
IxSend(x) ==
    /\ ix_pc = "running"
    /\ x \in DOMAIN ix_dir
    /\ ~processed_contains(ix_processed, x)
    /\ x \notin ix_sent
    /\ ix_sent' = ix_sent \cup {x}
    /\ ix_chan' = Append(ix_chan, x)
    /\ UNCHANGED <<ix_dir, ix_db, ix_unflushed, ix_track, ix_processed, ix_cur,
                   ix_main, ix_handled, ix_runs, ix_pc, ixRest>>

\* rx yields the next (diff_name, index)
IxRecv ==
    /\ ix_pc = "running"
    /\ ix_main = "recv"
    /\ ix_chan # <<>>
    /\ ix_cur' = Head(ix_chan)
    /\ ix_chan' = Tail(ix_chan)
    /\ ix_handled' = ix_handled \cup {Head(ix_chan)}
    /\ ix_main' = "batch"
    /\ UNCHANGED <<ix_dir, ix_db, ix_unflushed, ix_track, ix_processed, ix_sent,
                   ix_runs, ix_pc, ixRest>>

\* the batch is filled and db.write(write_batch) returns
IxWrite ==
    /\ ix_pc = "running"
    /\ ix_main = "batch"
    /\ ix_db' = db_write(ix_db, write_batch(ix_cur, ix_dir[ix_cur]))
    /\ ix_unflushed' = {b.key : b \in write_batch(ix_cur, ix_dir[ix_cur])}
    /\ ix_main' = "written"
    /\ UNCHANGED <<ix_dir, ix_track, ix_processed, ix_sent, ix_chan, ix_cur,
                   ix_handled, ix_runs, ix_pc, ixRest>>

\* db.flush()
IxFlush ==
    /\ ix_pc = "running"
    /\ ix_main = "written"
    /\ ix_unflushed' = {}
    /\ ix_main' = "flushed"
    /\ UNCHANGED <<ix_dir, ix_db, ix_track, ix_processed, ix_sent, ix_chan,
                   ix_cur, ix_handled, ix_runs, ix_pc, ixRest>>

\* the name is written to processed.txt as soon as it is received
IxTrackNameEarly ==
    /\ ix_pc = "running"
    /\ ix_main = "batch"
    /\ ix_track' = Append(ix_track, ix_cur)
    /\ ix_main' = "named"
    /\ UNCHANGED <<ix_dir, ix_db, ix_unflushed, ix_processed, ix_sent, ix_chan,
                   ix_cur, ix_handled, ix_runs, ix_pc, ixRest>>

\* writeln!(track_file, "{}", diff_name): the name is written
IxTrackName ==
    /\ ix_pc = "running"
    /\ ix_main = "flushed"
    /\ ix_track' = Append(ix_track, ix_cur)
    /\ ix_main' = "named"
    /\ UNCHANGED <<ix_dir, ix_db, ix_unflushed, ix_processed, ix_sent, ix_chan,
                   ix_cur, ix_handled, ix_runs, ix_pc, ixRest>>

\* writeln!: the newline is written, and the loop goes to its next round
IxTrackNewline ==
    /\ ix_pc = "running"
    /\ ix_main = "named"
    /\ ix_track' = Append(ix_track, NL)
    /\ ix_main' = "recv"
    /\ UNCHANGED <<ix_dir, ix_db, ix_unflushed, ix_processed, ix_sent, ix_chan,
                   ix_cur, ix_handled, ix_runs, ix_pc, ixRest>>

\* the reading thread has dropped tx and rx is drained: the run returns
IxFinish ==
    /\ ix_pc = "running"
    /\ ix_main = "recv"
    /\ ix_chan = <<>>
    /\ \A x \in DOMAIN ix_dir : processed_contains(ix_processed, x) \/ x \in ix_sent
    /\ ix_pc' = "done"
    /\ UNCHANGED <<ix_dir, ix_db, ix_unflushed, ix_track, ix_processed, ix_sent,
                   ix_chan, ix_cur, ix_main, ix_handled, ix_runs, ixRest>>

\* the process is interrupted: the files stay as they are, and a batch that
\* was written and not yet flushed is in the database or is not
IxInterrupt ==
    /\ ix_pc = "running"
    /\ ix_db' \in {ix_db, {r \in ix_db : r.key \notin ix_unflushed}}
    /\ ix_unflushed' = {}
    /\ ix_pc' = "crashed"
    /\ UNCHANGED <<ix_dir, ix_track, ix_processed, ix_sent, ix_chan, ix_cur,
                   ix_main, ix_handled, ix_runs, ixRest>>

IxNext ==
    \/ IxStart
    \/ \E x \in 1..MaxIxDiffs : IxSend(x)
    \/ IxRecv
    \/ IxWrite
    \/ IxFlush
    \/ IxTrackName
    \/ IxTrackNewline
    \/ IxFinish
    \/ IxInterrupt

SpecIndexDb == IxInit /\ [][IxNext]_vars

(***************************************************************************)
(* Specification of the snapshot checksum: the workers of a parallel loop  *)
(* call add_chunk under the mutex, one chunk each and in any order, and    *)
(* compute is called when the loop has returned.  blake3 is taken as a     *)
(* hash without collisions: the hash of a byte string is the string.       *)
(***************************************************************************)
\* the chunk numbers and the contents of the snapshots that are hashed
CkNumbers == {<<0, 1>>, <<0, 2>>, <<1, 0>>, <<256, 0>>}

CkData == {[i \in 1..ChunkLen |-> 5], [i \in 1..ChunkLen |-> 9]}

\* blake3::hash(data).as_bytes()
blake3_hash(data) == data

\* LE::write_u16 of both components into chunk_num_buf
chunk_num_bytes(n) == <<n[1] % 256, n[1] \div 256, n[2] % 256, n[2] \div 256>>

\* the comparator of compute: by n.0, then by n.1
cmp_less(a, b) == a[1] < b[1] \/ (a[1] = b[1] /\ a[2] < b[2])

\* one (n, hash) put into a sorted list behind the items not above it
RECURSIVE ck_insert(_, _)
ck_insert(sorted, item) ==
    IF sorted = <<>> THEN <<item>>
    ELSE IF cmp_less(item[1], Head(sorted)[1]) THEN <<item>> \o sorted
    ELSE <<Head(sorted)>> \o ck_insert(Tail(sorted), item)

\* chunks_hash_list left as the add_chunk calls made it
unsorted(list) == list

\* chunks_hash_list.sort_by(..): a stable sort under the comparator
RECURSIVE sort_by(_)
sort_by(list) ==
    IF list = <<>> THEN <<>>
    ELSE ck_insert(sort_by(SubSeq(list, 1, Len(list) - 1)), list[Len(list)])

\* the hasher fed with the chunk number and the hash of every item
RECURSIVE hasher_update(_)
hasher_update(list) ==
    IF list = <<>> THEN <<>>
    ELSE chunk_num_bytes(Head(list)[1]) \o Head(list)[2] \o hasher_update(Tail(list))

\* Checksum::add_chunk(n, data)
add_chunk(list, n, data) == Append(list, <<n, blake3_hash(data)>>)

\* Checksum::compute(self)
compute(list) == Some(hasher_update(sort_by(list)))

CkInit ==
    /\ CkRestIdle
    /\ \E c \in SUBSET CkNumbers : ck_chunks \in [c -> CkData]
    /\ ck_todo = DOMAIN ck_chunks
    /\ ck_list = <<>>
    /\ ck_result = None
    /\ ck_pc = "adding"

\* a worker takes the mutex and adds its chunk
CkAdd(n) ==
    /\ ck_pc = "adding"
    /\ n \in ck_todo
    /\ ck_list' = add_chunk(ck_list, n, ck_chunks[n])
    /\ ck_todo' = ck_todo \ {n}
    /\ UNCHANGED <<ck_chunks, ck_result, ck_pc, ckRest>>

\* the loop has returned: Arc::try_unwrap, into_inner and compute
CkCompute ==
    /\ ck_pc = "adding"
    /\ ck_todo = {}
    /\ ck_result' = compute(ck_list)
    /\ ck_pc' = "done"
    /\ UNCHANGED <<ck_chunks, ck_todo, ck_list, ckRest>>

CkNext == (\E n \in CkNumbers : CkAdd(n)) \/ CkCompute

SpecChecksum == CkInit /\ [][CkNext]_vars

(***************************************************************************)
(* Claims about the container.                                             *)
(***************************************************************************)
\* offset of the first payload byte: magic, version, index_pos, entry_count,
\* metadata length, metadata
PayloadStart == Len(MAGIC) + 2 + 8 + 4 + 4 + Len(MetadataJson)

AddedChunks == {added[i].n : i \in 1..Len(added)}

AddedDistinct == \A i, j \in 1..Len(added) : added[i].n = added[j].n => i = j

\* the index region of a file as the sequence of its entries
FileIndex(file) ==
    LET r == open(file)
    IN  [i \in 1..r.entry_count |->
            read_entry_at(file, r.index_pos + (i - 1) * INDEX_ENTRY_SIZE).entry[1]]

\* total length of the payloads of the first k add_entry calls
RECURSIVE PayloadBefore(_, _)
PayloadBefore(calls, k) ==
    IF k = 0 THEN 0
    ELSE PayloadBefore(calls, k - 1)
         + (IF IsSome(calls[k].data) THEN Len(calls[k].data[1]) ELSE 0)

\* C3: for a finalized file and a chunk number n that is not in its index,
\* query_chunk(n) returns Ok(None), without error or panic.
C3_AbsentIsNone ==
    (rd.op = "query" /\ rd.target \notin AddedChunks) => rd.result = QOk(None)

\* C4: with pairwise distinct chunk numbers, query_chunk of an indexed chunk
\* returns Some(E), E being the entry collect_index reports for that chunk.
C4_PresentIsFound ==
    (rd.op = "query" /\ AddedDistinct /\ rd.target \in AddedChunks)
        => LET ci == collect_index(out_file, reader)
           IN  /\ ci.ok
               /\ rd.target \in DOMAIN ci.map
               /\ rd.result = QOk(Some(ci.map[rd.target]))
               /\ <<ci.map[rd.target].x, ci.map[rd.target].y>> = rd.target

\* three distinct chunks added out of order, the last of the index found
C4_Witness ==
    /\ rd.op = "query" /\ AddedDistinct /\ Len(added) = 3
    /\ added[1].n = <<1, 2>> /\ added[3].n = <<0, 1>>
    /\ rd.target = <<1, 2>>
    /\ rd.result.kind = "Ok" /\ IsSome(rd.result.value)
    /\ rd.result.value[1].len > 0

\* C5: after finalize the index region is strictly increasing in (x, y), and
\* entry_count is the number of distinct indexed chunks.
C5_IndexStrictlyIncreasing ==
    dw_pc = "finalized"
        => LET ix == FileIndex(out_file)
           IN  /\ \A i \in 1..(Len(ix) - 1) :
                      KeyLess(<<ix[i].x, ix[i].y>>, <<ix[i + 1].x, ix[i + 1].y>>)
               /\ open(out_file).entry_count
                      = Cardinality({<<ix[i].x, ix[i].y>> : i \in 1..Len(ix)})

\* C8: with pairwise distinct chunk numbers added in any order, collect_index
\* gives exactly one entry per added chunk with the checksum given, the entry
\* is unchanged (pos = len = 0) iff None was added, and open_chunk of a
\* changed entry returns the bytes given to add_entry.
C8_WriterReaderRoundTrip ==
    /\ (rd.op = "collect" /\ AddedDistinct)
          => /\ rd.result.ok
             /\ reader.entry_count = Len(added)
             /\ DOMAIN rd.result.map = AddedChunks
             /\ \A i \in 1..Len(added) :
                   LET e == rd.result.map[added[i].n]
                   IN  /\ <<e.x, e.y>> = added[i].n
                       /\ e.checksum = added[i].checksum
                       /\ (~is_changed(e)) <=> (added[i].data = None)
                       /\ (e.pos = 0 /\ e.len = 0) <=> (added[i].data = None)
    /\ (rd.op = "open_chunk" /\ AddedDistinct /\ is_changed(rd.entry))
          => \E i \in 1..Len(added) :
                 /\ added[i].n = rd.n
                 /\ IsSome(added[i].data)
                 /\ rd.data = added[i].data[1]

\* a changed chunk added first and read back after two more chunks
C8_Witness ==
    /\ rd.op = "open_chunk" /\ AddedDistinct /\ Len(added) = 3
    /\ added[1].n = <<1, 2>> /\ added[1].data = Some(<<8, 9>>)
    /\ added[2].data = Some(<<7>>) /\ added[3].data = None
    /\ rd.n = <<1, 2>> /\ rd.data = <<8, 9>>

\* C9: after finalize every changed entry's range [pos, pos + len) lies in
\* the payload region [PayloadStart, index_pos), and the ranges of two
\* different changed entries do not overlap.
C9_PayloadRanges ==
    dw_pc = "finalized"
        => LET ix == FileIndex(out_file)
               index_pos == open(out_file).index_pos
           IN  /\ \A i \in 1..Len(ix) :
                      is_changed(ix[i]) =>
                          /\ PayloadStart <= ix[i].pos
                          /\ ix[i].pos + ix[i].len <= index_pos
               /\ \A i, j \in 1..Len(ix) :
                      (i # j /\ is_changed(ix[i]) /\ is_changed(ix[j])) =>
                          \/ ix[i].pos + ix[i].len <= ix[j].pos
                          \/ ix[j].pos + ix[j].len <= ix[i].pos

\* two changed entries with payload, contiguous in the payload region
C9_Witness ==
    /\ dw_pc = "finalized"
    /\ \E i, j \in 1..Len(FileIndex(out_file)) :
          LET ix == FileIndex(out_file)
          IN  /\ i # j /\ ix[i].len = 2 /\ ix[j].len = 1
              /\ ix[i].pos + ix[i].len = ix[j].pos

\* C10: before finalize index_pos and entry_count of the header are zero;
\* after finalize entry_count is the number of add_entry calls and index_pos
\* is the offset of the first index entry, which is the payload start plus
\* the length of all payload bytes added.
C10_Header ==
    /\ dw_pc = "open"
          => LET h == open(flush_buf(diff_file.writer).s.disk)
             IN  h.ok /\ h.index_pos = 0 /\ h.entry_count = 0
    /\ dw_pc = "finalized"
          => LET h == open(out_file)
                 sorted == SortEntries(diff_file.index_entries)
             IN  /\ h.ok
                 /\ h.entry_count = Len(added)
                 /\ h.index_pos = PayloadStart + PayloadBefore(added, Len(added))
                 /\ Len(out_file) = h.index_pos + INDEX_ENTRY_SIZE * Len(added)
                 /\ \A i \in 1..Len(added) :
                        read_entry_at(out_file,
                            h.index_pos + (i - 1) * INDEX_ENTRY_SIZE).entry[1]
                          = sorted[i]

\* a finalized file with three entries, two of them with payload
C10_Witness ==
    /\ dw_pc = "finalized" /\ Len(added) = 3
    /\ PayloadBefore(added, 3) = 3
    /\ open(out_file).index_pos = PayloadStart + 3
    /\ open(out_file).entry_count = 3

(***************************************************************************)
(* Claims about the diff pipeline.                                         *)
(***************************************************************************)
\* C6: if any write to the output stream fails, up to and including the
\* header update of finalize and its flush, the temp file is not renamed: a
\* file at the final path has seen every write reach the disk and carries
\* the true index_pos and entry_count.
C6_Atomicity ==
    final_file # None
        => LET h == open(final_file[1])
           IN  /\ diff_file.writer.buf = <<>>
               /\ h.ok
               /\ h.entry_count = Len(added)
               /\ h.index_pos = PayloadStart + PayloadBefore(added, Len(added))

\* the index of the diff file a single worker produces on a stream that
\* never fails
ReferenceIndex == FileIndex(DiffFileOf(base_snap, new_snap))

\* do_diff has returned Ok and every write reached the file
AllWritten == diff_pc = "done" /\ diff_file.writer.buf = <<>>

C1_RestoreEquivalence ==
    (ap_pc \in {"done", "exit"} /\ ~no_checksum)
        => /\ ap_pc = "done"
           /\ \A n \in DOMAIN snapshots[Len(snapshots)] :
                 /\ n \in DOMAIN output
                 /\ output[n] = snapshots[Len(snapshots)][n]

(***************************************************************************)
(* Claims about the reader's checks.                                       *)
(***************************************************************************)
\* C11: DiffFile::open returns an error, never a reader, for every input
\* whose first 11 bytes are not the magic or whose version field is not 3;
\* the magic is checked before the version (a wrong magic is reported even
\* when the version is wrong too), and nothing behind the version field is
\* read before both checks pass (a wrong version is reported even when the
\* input ends right after the version field).
C11_ReaderRejects ==
    rj_result # NoReader
        => LET f == rj_input
               m == Len(MAGIC)
               magic_ok == Len(f) >= m /\ SubSeq(f, 1, m) = MAGIC
           IN  /\ Len(f) < m => ~rj_result.ok
               /\ (Len(f) >= m /\ ~magic_ok)
                     => ~rj_result.ok /\ rj_result.err = "Magic error"
               /\ (magic_ok /\ Len(f) >= m + 2 /\ f[m + 1] + 256 * f[m + 2] # VERSION)
                     => ~rj_result.ok /\ rj_result.err = "Unsupported version"

\* an input of 13 bytes with the right magic and version 4 has been refused
C11_Witness ==
    /\ rj_result # NoReader
    /\ Len(rj_input) = 13
    /\ SubSeq(rj_input, 1, 11) = MAGIC
    /\ rj_input[12] = 4
    /\ rj_result.err = "Unsupported version"

(***************************************************************************)
(* Claims about the PNG codec.                                             *)
(***************************************************************************)
\* C12: for a canonical buffer B, reading the PNG that write_chunk_png
\* wrote for B gives B again; index 0 (transparent) and index 1 (black),
\* which share RGB (0, 0, 0), each come back as themselves.
C12_PaletteRoundTrip ==
    (png_pc = "written" /\ png_result.kind # "none" /\ IsCanonical(png_buf))
        => png_result = PngOk(png_buf)

\* a buffer holding index 1 and index 0 has been written and read back
C12_Witness ==
    /\ png_pc = "written" /\ png_result.kind = "Ok"
    /\ png_buf[1] = 1 /\ png_buf[3] = 0
    /\ png_result.buf[1] = 1 /\ png_result.buf[3] = 0

\* C19: read_png_reader never returns a non-canonical byte: every buffer it
\* returns with Ok has all bytes in [0, 63] (a pixel of an opaque palette
\* entry whose colour is not in the global palette makes it return an error).
C19_DecodedIsCanonical ==
    png_result.kind = "Ok" => IsCanonical(png_result.buf)

(***************************************************************************)
(* Further claims about the diff pipeline.                                 *)
(***************************************************************************)
\* C13: a chunk that the base snapshot holds with the same buffer as the new
\* one is recorded with pos = 0 and len = 0 and adds no payload bytes; the
\* diff of a snapshot against itself has an empty payload region.
C13_IdentityDiff ==
    /\ \A i \in 1..Len(added) :
          (/\ diff_pc # "idle"
           /\ added[i].n \in DOMAIN base_snap
           /\ base_snap[added[i].n] = new_snap[added[i].n])
             => /\ added[i].data = None
                /\ diff_file.index_entries[i].pos = 0
                /\ diff_file.index_entries[i].len = 0
                /\ PayloadBefore(added, i) = PayloadBefore(added, i - 1)
    /\ (AllWritten /\ base_snap = new_snap)
          => /\ open(final_file[1]).index_pos = PayloadStart
             /\ \A i \in 1..Len(FileIndex(final_file[1])) :
                   ~is_changed(FileIndex(final_file[1])[i])

\* a snapshot of two chunks has been diffed against itself
C13_Witness ==
    /\ AllWritten /\ base_snap = new_snap /\ Len(added) = 2
    /\ open(final_file[1]).entry_count = 2

(***************************************************************************)
(* Claims about apply_chunk.                                               *)
(***************************************************************************)
\* C14: for any base B and any mask M, apply_chunk leaves M[i] & 0x3F where
\* M[i] has bit 6 set and B[i] elsewhere, whatever the other bits of M[i]
\* are; a mask with no mutation bit leaves the base as it is.
C14_ApplySemantics ==
    pix_pc = "masked"
        => /\ Len(pix_buf) = Len(pix_base)
           /\ \A i \in 1..Len(pix_base) :
                 pix_buf[i] = IF (pix_mask[i] \div 64) % 2 = 1
                              THEN pix_mask[i] % 64
                              ELSE pix_base[i]
           /\ (\A i \in 1..Len(pix_mask) : (pix_mask[i] \div 64) % 2 = 0)
                 => pix_buf = pix_base

\* a mask byte with bits 7 and 6 set next to one with only low bits set
C14_Witness ==
    /\ pix_pc = "masked"
    /\ pix_mask[1] = 192 /\ pix_mask[2] = 5
    /\ pix_base[1] = 9 /\ pix_base[2] = 73
    /\ pix_buf = <<0, 73>> \o SubSeq(pix_base, 3, Len(pix_base))

(***************************************************************************)
(* Claims about apply over any base and any diff list.                     *)
(***************************************************************************)
\* the index of a diff file the writer made
IndexOf(file) == collect_index(file, open(file)).map

\* the chunk numbers of the changed entries of a diff file
ChangedIn(file) == {n \in DOMAIN IndexOf(file) : is_changed(IndexOf(file)[n])}

\* the number of bytes the payload of a changed entry decompresses to
PayloadLen(file, n) == open_chunk(file, IndexOf(file)[n])[Len(ZstdMagic) + 1]

\* the buffer of chunk n that diff number i (from 1) is applied to
BaseBufOf(i, n) ==
    IF i = 1
    THEN IF n \in DOMAIN snapshots[1] THEN snapshots[1][n] ELSE ZeroBuf
    ELSE decompress_to(memory_store, n)

\* C17: when the payload of a changed entry decompresses to a number of
\* bytes other than the chunk length, shorter or longer, apply reports an
\* error for the chunk (the run exits) and the mask is not applied: no
\* output file is written for the chunk.
C17_WrongMaskLength ==
    (diff_i >= 1 /\ ap_pc # "start")
        => \A n \in ChangedIn(diffs[diff_i]) :
              PayloadLen(diffs[diff_i], n) # ChunkLen
                  => ap_pc = "exit" /\ n \notin DOMAIN output

\* the shorter payload is refused
C17_ShortRefused ==
    (diff_i >= 1 /\ ap_pc # "start")
        => \A n \in ChangedIn(diffs[diff_i]) :
              PayloadLen(diffs[diff_i], n) < ChunkLen
                  => ap_pc = "exit" /\ n \notin DOMAIN output

\* a run that took a payload longer than a chunk and wrote the chunk its
\* first bytes make
C17_LongApplied ==
    /\ ap_pc = "done" /\ diff_i = 1
    /\ AnyChunk \in ChangedIn(diffs[1])
    /\ PayloadLen(diffs[1], AnyChunk) > ChunkLen
    /\ AnyChunk \in DOMAIN output

\* the changed entries of diff number i whose mask, applied to the buffer
\* the run holds for the chunk, gives a chunk with another CRC than the
\* entry's checksum
MismatchIn(i) ==
    {n \in ChangedIn(diffs[i]) :
        LET entry == IndexOf(diffs[i])[n]
            mask == zstd_decompress(open_chunk(diffs[i], entry), ChunkLen)
        IN  /\ mask.ok
            /\ chunk_checksum(apply_chunk(BaseBufOf(i, n), mask.data))
                   # entry.checksum}

\* C15: with checksum validation enabled, whenever applying a changed entry
\* of the first, an intermediate or the last diff gives a chunk whose CRC
\* differs from the entry's checksum, the run exits with code 1; a run that
\* has exited never reports success.
C15_ChecksumMismatchFatal ==
    [][/\ (~no_checksum /\ diff_i' = diff_i + 1 /\ MismatchIn(diff_i + 1) # {})
              => ap_pc' = "exit"
       /\ ap_pc = "exit" => ap_pc' = "exit"]_vars

\* a run of three diffs that exited on the checksum of a changed entry of
\* the intermediate diff, whose payload has the length of a chunk
C15_Witness ==
    /\ ap_pc = "exit" /\ ~no_checksum
    /\ Len(diffs) = 3 /\ diff_i = 2
    /\ ChangedIn(diffs[2]) # {}
    /\ \A n \in ChangedIn(diffs[2]) : PayloadLen(diffs[2], n) = ChunkLen

\* the chunk numbers of the unchanged entries of a diff file
UnchangedIn(file) == DOMAIN IndexOf(file) \ ChangedIn(file)

\* C16: for every setting of --no-checksum and --dry-run, when the first
\* diff marks a chunk unchanged and the base has no such chunk, the run
\* exits with a non-zero code, writes no output file for the chunk and
\* stores no data for it in the memory store.
C16_MissingBaseAborts ==
    diff_i = 1
        => \A n \in UnchangedIn(diffs[1]) :
              n \notin DOMAIN snapshots[1]
                  => /\ ap_pc = "exit"
                     /\ n \notin DOMAIN output
                     /\ n \notin DOMAIN memory_store

\* the same with checksum validation enabled
C16_AbortsWhenValidating ==
    (diff_i = 1 /\ ~no_checksum)
        => \A n \in UnchangedIn(diffs[1]) :
              n \notin DOMAIN snapshots[1]
                  => /\ ap_pc = "exit"
                     /\ n \notin DOMAIN output
                     /\ n \notin DOMAIN memory_store

\* a run with --no-checksum that went past the missing chunk and wrote an
\* empty file for it
C16_EmptyFileWritten ==
    /\ diff_i = 1 /\ ap_pc = "done" /\ no_checksum
    /\ AnyChunk \in UnchangedIn(diffs[1])
    /\ AnyChunk \notin DOMAIN snapshots[1]
    /\ AnyChunk \in DOMAIN output /\ output[AnyChunk] = <<>>

\* a run with --no-checksum that stored a buffer of zeros for the missing
\* chunk and went on to the next diff
C16_ZerosStored ==
    /\ diff_i = 1 /\ ap_pc = "applying" /\ no_checksum
    /\ AnyChunk \in UnchangedIn(diffs[1])
    /\ AnyChunk \notin DOMAIN snapshots[1]
    /\ AnyChunk \in DOMAIN memory_store
    /\ memory_store[AnyChunk] = zstd_encode(ZeroBuf)

\* every payload of every diff of the run decompresses to a whole mask, so
\* that the checksum is the only thing that can fail behind the first diff
PayloadsDecompress ==
    \A i \in 1..Len(diffs) : \A n \in ChangedIn(diffs[i]) :
        PayloadLen(diffs[i], n) >= ChunkLen

\* C20: for every base and every diff list, apply --dry-run exits with a
\* checksum error exactly when apply --output over the same base and diffs
\* does, and the dry run writes no file.
C20_DryRunValidatesAlike ==
    (dry_run /\ ap_pc \in {"done", "exit"} /\ PayloadsDecompress)
        => /\ ap_pc = "exit"
                 <=> ~apply_main(snapshots[1], diffs, TRUE, no_checksum)
           /\ output = EmptyMap

\* the dry run writes no file
C20_DryRunWritesNothing == dry_run => output = EmptyMap

\* a dry run that ended with success over a base and diffs for which the
\* run with --output exits on the checksum of an unchanged entry of the
\* last diff
C20_DryRunMissesMismatch ==
    /\ dry_run /\ ~no_checksum /\ ap_pc = "done" /\ Len(diffs) = 2
    /\ AnyChunk \in UnchangedIn(diffs[2])
    /\ ~apply_main(snapshots[1], diffs, TRUE, no_checksum)

(***************************************************************************)
(* Claims about the tar index.                                             *)
(***************************************************************************)
\* the regular entries of the archive whose path matches the pattern
MatchingEntries ==
    {k \in 2..Len(tar_archive) :
        tar_archive[k].type = "Regular" /\ regex_is_match(tar_archive[k].path)}

\* the regular entries of the archive whose path does not match it
ForeignEntries ==
    {k \in 2..Len(tar_archive) :
        tar_archive[k].type = "Regular" /\ ~regex_is_match(tar_archive[k].path)}

\* the chunk number the path of a matching entry names
NumberOf(k) ==
    LET group == regex_captures(tar_archive[k].path)[1]
    IN  <<DecimalValue(group[1]), DecimalValue(group[2])>>

\* every matching entry is in the map with its offset and size (the last
\* one of those with the same chunk number)
MatchingIndexed ==
    \A k \in MatchingEntries :
        (\A j \in MatchingEntries : NumberOf(j) = NumberOf(k) => j <= k)
            => /\ NumberOf(k) \in DOMAIN tar_reader.map
               /\ tar_reader.map[NumberOf(k)]
                      = [start |-> raw_file_position(tar_archive, k),
                         size |-> tar_archive[k].size]

\* an archive that starts with the root directory and whose matching
\* entries name chunk numbers that are u16
WellFormedArchive ==
    /\ tar_archive # <<>> /\ tar_archive[1].type = "Directory"
    /\ \A k \in MatchingEntries : NumberOf(k)[1] < 65536 /\ NumberOf(k)[2] < 65536

\* C18: indexing an archive that holds a regular file whose path does not
\* match .*/(\d+)/(\d+)\.png succeeds, leaves that entry out of the chunk
\* map and indexes every matching entry with its byte offset and size.
C18_ForeignIgnored ==
    (tar_reader # NoTarReader /\ WellFormedArchive /\ ForeignEntries # {})
        => /\ tar_reader.kind = "Ok"
           /\ \A k \in ForeignEntries : \A n \in DOMAIN tar_reader.map :
                 tar_reader.map[n].start # raw_file_position(tar_archive, k)
           /\ MatchingIndexed

\* without a foreign regular file the index is built and holds every
\* matching entry
C18_MatchingIndexed ==
    (tar_reader # NoTarReader /\ WellFormedArchive /\ ForeignEntries = {})
        => tar_reader.kind = "Ok" /\ MatchingIndexed

\* a foreign regular file behind a matching one makes indexing panic
C18_ForeignPanics ==
    /\ WellFormedArchive
    /\ MatchingEntries # {} /\ ForeignEntries # {}
    /\ tar_reader.kind = "Panic"

\* every archive with a foreign regular file makes indexing panic
C18_ForeignAlwaysPanics ==
    (tar_reader # NoTarReader /\ WellFormedArchive /\ ForeignEntries # {})
        => tar_reader.kind = "Panic"

(***************************************************************************)
(* Claims about the mask and the worker of the diff pipeline.              *)
(***************************************************************************)
\* C22: for any base and new buffers, every byte of the mask diff_chunk
\* computes is 0 where (base[i] & 0x3F) = (new[i] & 0x3F) and
\* 0x40 | (new[i] & 0x3F) elsewhere; bit 7 is never set, and a byte without
\* the mutation bit is 0.
C22_DerivedMask ==
    pix_pc = "diffed"
        => \A i \in 1..ChunkLen :
              /\ pix_buf[i] = IF pix_base[i] % 64 = pix_new[i] % 64 THEN 0
                              ELSE 64 + (pix_new[i] % 64)
              /\ pix_buf[i] < 128
              /\ pix_buf[i] < 64 => pix_buf[i] = 0

\* a single changed pixel 5 -> 9 gives the mask byte 0x49 and 0 elsewhere;
\* a pixel that differs only in its high bits gives 0
C22_Witness ==
    /\ pix_pc = "diffed"
    /\ \E i \in 1..ChunkLen :
          /\ pix_base[i] = 5 /\ pix_new[i] = 9 /\ pix_buf[i] = 73
          /\ \A j \in 1..ChunkLen : j # i =>
                /\ pix_buf[j] = 0
                /\ pix_base[j] = 9 /\ pix_new[j] = 73

(***************************************************************************)
(* Claims about the worker of do_diff.                                     *)
(***************************************************************************)
\* C21: the worker sends None exactly when the base holds the chunk and its
\* buffer equals the new buffer byte for byte; when the base lacks the
\* chunk the mask is the diff against the all-zero buffer, whatever the
\* scratch buffer held, and the message carries Some(data).
C21_WorkerClassification ==
    wk_pc # "start"
        => LET m == wk_msg[1]
               has == AnyChunk \in DOMAIN wk_base
           IN  /\ m.diff = None <=> (has /\ wk_base[AnyChunk] = wk_new[AnyChunk])
               /\ ~has => m.diff = Some(zstd_encode(diff_chunk(ZeroBuf,
                                                               wk_new[AnyChunk])))
               /\ wk_pc \in {"written", "applied"}
                    => \A n \in DOMAIN IndexOf(wk_file) :
                          is_changed(IndexOf(wk_file)[n]) <=> m.diff # None

\* the base lacks the chunk, the new chunk is all transparent, the scratch
\* buffer held the mask of an earlier chunk: the entry is changed
C21_Witness ==
    /\ wk_pc = "written"
    /\ AnyChunk \notin DOMAIN wk_base
    /\ wk_new[AnyChunk] = ZeroBuf
    /\ wk_scratch["base_buf"] # ZeroBuf
    /\ wk_msg[1].diff = Some(zstd_encode(ZeroBuf))
    /\ is_changed(IndexOf(wk_file)[AnyChunk])

\* C23: whatever buffers the fetchers return, bytes with bit 6 or 7 set
\* included, applying the mask of the entry to the same base gives a buffer
\* whose CRC is the checksum of the entry: apply validates and returns Ok.
C23_StrayBitsTolerated ==
    wk_pc = "applied"
        => /\ wk_result.ok
           /\ chunk_checksum(wk_result.output[AnyChunk]) = wk_msg[1].checksum

\* the same over canonical buffers only
C23_CanonicalTolerated ==
    (/\ wk_pc = "applied"
     /\ \A i \in 1..ChunkLen : wk_new[AnyChunk][i] < 64
     /\ \A n \in DOMAIN wk_base : \A i \in 1..ChunkLen : wk_base[n][i] < 64)
        => /\ wk_result.ok
           /\ chunk_checksum(wk_result.output[AnyChunk]) = wk_msg[1].checksum

(***************************************************************************)
(* Claims about directory snapshots.                                       *)
(***************************************************************************)
\* C24: for every chunk number chunks_iter of a directory fetcher yields,
\* fetch reports the chunk present, so assert!(present) never fails; and the
\* enumeration yields each chunk number at most once.
C24_EnumeratedFetchable ==
    dir_chunks # None
        => /\ dir_absent = {}
           /\ \A i, j \in 1..Len(dir_chunks[1]) :
                 dir_chunks[1][i] = dir_chunks[1][j] => i = j

\* the same over directories that hold nothing but chunk files x/y.png with
\* x and y written without leading zeros
OnlyChunkFiles ==
    \A p \in dir_files :
        /\ collected_of(p) # None
        /\ dir_fetch_present({p}, collected_of(p)[1])

C24_ChunkFilesFetchable == OnlyChunkFiles => C24_EnumeratedFetchable

(***************************************************************************)
(* Claims about the threads of the diff pipeline.                          *)
(***************************************************************************)
\* C25: a file is at the final path only if its index holds an entry for
\* every chunk number enumerated from the new snapshot, also when a worker
\* has panicked and the channel has closed early.
C25_NoPartialDiff ==
    final_file # None
        => \A k \in 1..Len(new_chunks) :
              new_chunks[k] \in DOMAIN IndexOf(final_file[1])

\* the same for the runs in which no worker panics and every write reaches
\* the file
C25_CompleteWithoutPanic ==
    (final_file # None /\ panicked = {} /\ diff_file.writer.buf = <<>>)
        => \A k \in 1..Len(new_chunks) :
              new_chunks[k] \in DOMAIN IndexOf(final_file[1])

\* C26: the messages sent and not yet received are never more than the
\* bound of the channel, and a send completes only when the channel has
\* room.
C26_BoundedChannel ==
    /\ [](Len(chan) <= ChannelBound /\ Len(sent) - Len(passed) <= ChannelBound)
    /\ [][sent' # sent => Len(chan) < ChannelBound]_vars

\* the channel is full and a worker waits in tx.send
C26_Witness ==
    /\ Len(chan) = ChannelBound
    /\ \E w \in 1..NumWorkers : workers[w].msg # None

C28_Terminates == <>(diff_pc = "done")

\* do_diff has returned over a chunk list of two numbers, one of them taken
\* by a worker that panicked
C28_Witness ==
    /\ diff_pc = "done"
    /\ Len(new_chunks) = 2
    /\ panicked # {}
    /\ Len(passed) = 1

(***************************************************************************)
(* Specification of a multi-diff apply, chunk by chunk: every call of a    *)
(* closure of the parallel loops of apply_1st_diff and apply_non_1st_diff  *)
(* is a step, taken in any order; a loop returns when rayon has handed out *)
(* every item and every closure has returned.  The memory store is the     *)
(* array of slots, addressed by array_index.                               *)
(***************************************************************************)
\* 2048 chunk numbers in each direction, scaled
CHUNK_NUMBER_TOTAL == 2

ARRAY_LEN == CHUNK_NUMBER_TOTAL * CHUNK_NUMBER_TOTAL

array_index(n) == (n[1] * CHUNK_NUMBER_TOTAL) + n[2]

\* chunk numbers are pairs of u16: two inside the map and one beside it
RsChunkNumbers == {<<0, 1>>, <<1, 0>>, <<0, CHUNK_NUMBER_TOTAL>>}

\* pairs of snapshots: a new chunk (1, 0); (1, 0) unchanged and a new chunk
\* beside the map; (0, 1) changed; (0, 1) and (1, 0) unchanged
RsPairs ==
    {<<EmptyMap, (<<1, 0>> :> Buf(5, 0))>>,
     <<(<<1, 0>> :> Buf(5, 0)),
       (<<1, 0>> :> Buf(5, 0)) @@ (<<0, CHUNK_NUMBER_TOTAL>> :> Buf(0, 9))>>,
     <<(<<0, 1>> :> Buf(5, 0)), (<<0, 1>> :> Buf(0, 9))>>,
     <<(<<0, 1>> :> Buf(0, 9)) @@ (<<1, 0>> :> Buf(5, 0)),
       (<<0, 1>> :> Buf(0, 9)) @@ (<<1, 0>> :> Buf(5, 0))>>}

RsDiffFiles == {DiffFileOf(p[1], p[2]) : p \in RsPairs}

RsBases == {EmptyMap, (<<0, 1>> :> Buf(5, 0))}

RsInit ==
    /\ PixIdle /\ DwIdle /\ RdIdle /\ DdIdle /\ ApIdle
    /\ RjIdle /\ PngIdle /\ TarIdle /\ WkIdle /\ DirIdle /\ ZIdle
    /\ rs_base \in RsBases
    /\ \E k \in 2..MaxDiffs : rs_diffs \in [1..k -> RsDiffFiles]
    /\ rs_no_checksum \in BOOLEAN
    /\ rs_store = [slot \in 0..(ARRAY_LEN - 1) |-> None]
    /\ rs_before = [slot \in 0..(ARRAY_LEN - 1) |-> None]
    /\ rs_output = EmptyMap
    /\ rs_i = 0
    /\ rs_loop = "none"
    /\ rs_todo = {}
    /\ rs_log = <<>>
    /\ rs_pc = "start"

\* the memory store as decompress_to sees it: the frame in the slot of n
slot_view(store) ==
    [n \in {c \in RsChunkNumbers : store[array_index(c)] # None} |->
        store[array_index(n)][1]]

\* the event of a closure call
RsEvent(n) == [i |-> rs_i, loop |-> rs_loop, n |-> n]

\* the next diff file is opened and its index collected; the first loop of
\* the step is over the changed entries
RsOpen ==
    /\ rs_pc \in {"start", "between"}
    /\ IF open(rs_diffs[rs_i + 1]).ok
       THEN /\ rs_pc' = "step"
            /\ rs_todo' = {n \in DOMAIN collect_index(rs_diffs[rs_i + 1],
                                                     open(rs_diffs[rs_i + 1])).map :
                              is_changed(collect_index(rs_diffs[rs_i + 1],
                                             open(rs_diffs[rs_i + 1])).map[n])}
       ELSE /\ rs_pc' = "exit"
            /\ rs_todo' = {}
    /\ rs_i' = rs_i + 1
    /\ rs_loop' = "changed"
    /\ rs_before' = rs_store
    /\ UNCHANGED <<rs_base, rs_diffs, rs_no_checksum, rs_store, rs_output,
                   rs_log, pixVars, dwVars, rdVars, ddVars, apVars, rjVars,
                   pngVars, tarVars, wkVars, dirVars, zVars>>

\* what the closure over a changed entry makes of chunk n: [ok, buf]
changed_closure(base_fetcher, store, file, i, n, index, checksum_off) ==
    IF i = 1 THEN first_changed(base_fetcher, file, n, index[n], checksum_off)
    ELSE non_1st_changed(slot_view(store), file, n, index[n], checksum_off)

\* the closure over a changed entry, of the first diff or of a later one
RsChanged(n) ==
    /\ rs_pc = "step"
    /\ rs_loop = "changed"
    /\ n \in rs_todo
    /\ LET r == changed_closure(rs_base, rs_store, rs_diffs[rs_i], rs_i, n,
                    collect_index(rs_diffs[rs_i], open(rs_diffs[rs_i])).map,
                    rs_no_checksum)
       IN  IF r.ok
           THEN /\ rs_store' = [rs_store EXCEPT ![array_index(n)] =
                                   Some(zstd_encode(r.buf))]
                /\ rs_pc' = "step"
           ELSE /\ rs_store' = rs_store
                /\ rs_pc' = "exit"
    /\ rs_todo' = rs_todo \ {n}
    /\ rs_log' = Append(rs_log, RsEvent(n))
    /\ UNCHANGED <<rs_base, rs_diffs, rs_no_checksum, rs_before, rs_output, rs_i,
                   rs_loop, pixVars, dwVars, rdVars, ddVars, apVars, rjVars,
                   pngVars, tarVars, wkVars, dirVars, zVars>>

\* the closure of apply_1st_diff over an unchanged entry
RsUnchanged(n) ==
    /\ rs_pc = "step"
    /\ rs_loop = "unchanged"
    /\ n \in rs_todo
    /\ LET r == first_unchanged(rs_base, n,
                    collect_index(rs_diffs[rs_i], open(rs_diffs[rs_i])).map[n],
                    rs_no_checksum)
       IN  IF r.ok
           THEN /\ rs_store' = [rs_store EXCEPT ![array_index(n)] =
                                   Some(zstd_encode(r.buf))]
                /\ rs_pc' = "step"
           ELSE /\ rs_store' = rs_store
                /\ rs_pc' = "exit"
    /\ rs_todo' = rs_todo \ {n}
    /\ rs_log' = Append(rs_log, RsEvent(n))
    /\ UNCHANGED <<rs_base, rs_diffs, rs_no_checksum, rs_before, rs_output, rs_i,
                   rs_loop, pixVars, dwVars, rdVars, ddVars, apVars, rjVars,
                   pngVars, tarVars, wkVars, dirVars, zVars>>

\* the closure of the loop "Writing to disk" of the last diff: the chunk is
\* written, then validated
RsWrite(n) ==
    /\ rs_pc = "step"
    /\ rs_loop = "write"
    /\ n \in rs_todo
    /\ rs_output' = MapInsert(rs_output, n, decompress_to(slot_view(rs_store), n))
    /\ rs_pc' = IF \/ rs_no_checksum
                   \/ validate_chunk_checksum(
                          decompress_to(slot_view(rs_store), n),
                          collect_index(rs_diffs[rs_i],
                                        open(rs_diffs[rs_i])).map[n].checksum)
                THEN "step" ELSE "exit"
    /\ rs_todo' = rs_todo \ {n}
    /\ rs_log' = Append(rs_log, RsEvent(n))
    /\ UNCHANGED <<rs_base, rs_diffs, rs_no_checksum, rs_store, rs_before, rs_i,
                   rs_loop, pixVars, dwVars, rdVars, ddVars, apVars, rjVars,
                   pngVars, tarVars, wkVars, dirVars, zVars>>

\* a loop that returns although items are left
RsLoopEndEarly ==
    /\ rs_pc = "step"
    /\ rs_loop' = "none"
    /\ rs_todo' = {}
    /\ rs_pc' = IF rs_i = Len(rs_diffs) THEN "done" ELSE "between"
    /\ UNCHANGED <<rs_base, rs_diffs, rs_no_checksum, rs_store, rs_before,
                   rs_output, rs_i, rs_log, pixVars, dwVars, rdVars, ddVars,
                   apVars, rjVars, pngVars, tarVars, wkVars, dirVars, zVars>>

\* for_each_with returns: every closure of the loop has returned.  The
\* first diff goes on to its unchanged entries, the last diff to the loop
\* that writes every chunk of its index, and otherwise the step is over
RsLoopEnd ==
    /\ rs_pc = "step"
    /\ rs_todo = {}
    /\ IF rs_loop = "changed" /\ rs_i = 1
       THEN /\ rs_loop' = "unchanged"
            /\ rs_todo' = {n \in DOMAIN collect_index(rs_diffs[rs_i],
                                                     open(rs_diffs[rs_i])).map :
                              ~is_changed(collect_index(rs_diffs[rs_i],
                                              open(rs_diffs[rs_i])).map[n])}
            /\ rs_pc' = "step"
       ELSE IF rs_loop = "changed" /\ rs_i = Len(rs_diffs)
       THEN /\ rs_loop' = "write"
            /\ rs_todo' = DOMAIN collect_index(rs_diffs[rs_i],
                                               open(rs_diffs[rs_i])).map
            /\ rs_pc' = "step"
       ELSE /\ rs_loop' = "none"
            /\ rs_todo' = {}
            /\ rs_pc' = IF rs_i = Len(rs_diffs) THEN "done" ELSE "between"
    /\ UNCHANGED <<rs_base, rs_diffs, rs_no_checksum, rs_store, rs_before,
                   rs_output, rs_i, rs_log, pixVars, dwVars, rdVars, ddVars,
                   apVars, rjVars, pngVars, tarVars, wkVars, dirVars, zVars>>

RsNext ==
    \/ RsOpen
    \/ \E n \in RsChunkNumbers : RsChanged(n)
    \/ \E n \in RsChunkNumbers : RsUnchanged(n)
    \/ \E n \in RsChunkNumbers : RsWrite(n)
    \/ RsLoopEnd

SpecRestore == RsInit /\ [][RsNext]_vars

(***************************************************************************)
(* Claims about the steps of a multi-diff apply.                           *)
(***************************************************************************)
\* the chunk numbers with a changed entry in diff number i
RsChangedOf(i) == ChangedIn(rs_diffs[i])

C30_RestoreFrame ==
    rs_i > 1
        => /\ \A n \in RsChunkNumbers \ RsChangedOf(rs_i) :
                 rs_store[array_index(n)] = rs_before[array_index(n)]
           /\ \A slot \in DOMAIN rs_store :
                 rs_before[slot] # None => rs_store[slot] # None

\* the same for the chunk numbers inside the map
C30_FrameInsideMap ==
    rs_i > 1
        => /\ \A n \in RsChunkNumbers \ RsChangedOf(rs_i) :
                 (\A m \in RsChangedOf(rs_i) \cup {n} : m[2] < CHUNK_NUMBER_TOTAL)
                    => rs_store[array_index(n)] = rs_before[array_index(n)]
           /\ \A slot \in DOMAIN rs_store :
                 rs_before[slot] # None => rs_store[slot] # None

\* every chunk number of the first i diffs lies inside the map
InsideMap(i) ==
    \A j \in 1..i : \A m \in DOMAIN IndexOf(rs_diffs[j]) : m[2] < CHUNK_NUMBER_TOTAL

\* C31: with checksum validation on, a step starts only when every chunk
\* with an entry in the diff before it, changed or unchanged, was left in a
\* state whose CRC-32 is the checksum of that entry (chunk numbers inside
\* the map).
C31_ValidatedEveryStep ==
    (rs_i > 1 /\ ~rs_no_checksum /\ InsideMap(rs_i - 1))
        => \A n \in DOMAIN IndexOf(rs_diffs[rs_i - 1]) :
              validate_chunk_checksum(decompress_to(slot_view(rs_before), n),
                                      IndexOf(rs_diffs[rs_i - 1])[n].checksum)

\* the same for the first diff, and for the changed entries of every diff
C31_ValidatedChanged ==
    (rs_i > 1 /\ ~rs_no_checksum /\ InsideMap(rs_i - 1))
        => \A n \in DOMAIN IndexOf(rs_diffs[rs_i - 1]) :
              (rs_i = 2 \/ n \in RsChangedOf(rs_i - 1))
                 => validate_chunk_checksum(
                        decompress_to(slot_view(rs_before), n),
                        IndexOf(rs_diffs[rs_i - 1])[n].checksum)

\* C32: every chunk number that a started step takes from its diff index has
\* a slot index below ARRAY_LEN, and two distinct chunk numbers of that index
\* have distinct slots.
C32_SlotAddressing ==
    rs_i >= 1
        => \A n \in DOMAIN IndexOf(rs_diffs[rs_i]) :
              /\ array_index(n) < ARRAY_LEN
              /\ \A m \in DOMAIN IndexOf(rs_diffs[rs_i]) :
                    m # n => array_index(m) # array_index(n)

\* for chunk numbers with both components below CHUNK_NUMBER_TOTAL the slots
\* are inside the store and pairwise distinct
C32_SlotsInsideMap ==
    \A n, m \in (0..CHUNK_NUMBER_TOTAL - 1) \X (0..CHUNK_NUMBER_TOTAL - 1) :
        /\ array_index(n) < ARRAY_LEN
        /\ m # n => array_index(m) # array_index(n)

\* the diffs from number i on applied to the store with validation as
\* apply::main does, the last one with the output: [ok, memory, output, ..]
RECURSIVE validated_rest(_, _, _)
validated_rest(memory, ds, i) ==
    IF i = Len(ds)
    THEN apply_non_1st_diff(memory, ds[i], TRUE, FALSE)
    ELSE validated_rest(apply_non_1st_diff(memory, ds[i], FALSE, FALSE).memory, ds, i + 1)

\* the multi-diff run of apply::main with checksum validation
validated_run(base_fetcher, ds) ==
    validated_rest(apply_1st_diff(TRUE, EmptyMap, base_fetcher, ds[1], FALSE, FALSE).memory, ds, 2)

\* the chunks that the first diff marks unchanged and the base holds
FirstUnchanged == (DOMAIN IndexOf(diffs[1]) \ ChangedIn(diffs[1])) \cap DOMAIN snapshots[1]

\* C35: when the multi-diff run with validation succeeds, the run with
\* --no-checksum writes the same content for every output chunk, and a chunk
\* that the first diff marks unchanged is in the store with the content of
\* the base chunk.
C35_NoChecksumSameOutput ==
    (no_checksum /\ Len(diffs) > 1 /\ apply_main(snapshots[1], diffs, TRUE, FALSE))
        => /\ ap_pc = "done" => output = validated_run(snapshots[1], diffs).output
           /\ diff_i = 1 => \A n \in FirstUnchanged :
                               decompress_to(memory_store, n) = snapshots[1][n]

\* the same when the first diff has no unchanged entry of a base chunk
C35_SameWithoutUnchanged ==
    (no_checksum /\ Len(diffs) > 1 /\ apply_main(snapshots[1], diffs, TRUE, FALSE)
       /\ FirstUnchanged = {})
        => (ap_pc = "done" => output = validated_run(snapshots[1], diffs).output)

\* C36: with checksum validation on, every chunk in the output directory
\* has the CRC-32 that its entry in the diff being applied records, in the
\* single-diff path and in the last step of a multi-diff apply.
C36_ValidateBeforeWrite ==
    ~no_checksum
        => \A n \in DOMAIN output :
              validate_chunk_checksum(output[n], IndexOf(diffs[diff_i])[n].checksum)

\* the same in the single-diff path alone
C36_SingleDiffValidated ==
    (~no_checksum /\ Len(diffs) = 1)
        => \A n \in DOMAIN output :
              validate_chunk_checksum(output[n], IndexOf(diffs[diff_i])[n].checksum)

\* C33: the lookup table is published at most once per process, and once it
\* is published no thread assigns it again.
C33_PublishedOnce == Len(lut_writes) <= 1

\* every thread publishes at most once, and a published table stays Some
C33_OncePerThread ==
    /\ \A i, j \in 1..Len(lut_writes) : lut_writes[i] = lut_writes[j] => i = j
    /\ lut_writes # <<>> => lut_table # None

\* the packed bytes of png unpacked into a separate buffer: pixel k (from 0)
\* is the mapped k-th bit group, the highest bits of a byte first
unpack_separate(png) ==
    [p \in 1..UpPixels(png) |->
        PixelMapper_new(png).fast_map[
            BitField(png.data[((p - 1) \div (8 \div png.bit_depth)) + 1],
                     png.bit_depth, (p - 1) % (8 \div png.bit_depth))]]

\* the packed bytes that the loop has not yet read
UpUnread ==
    {loop_order(Len(up_info.data))[q] : q \in (up_j + 1)..Len(up_info.data)}

\* C34: for bit depths 1, 2 and 4 the in-place expansion leaves the buffer
\* that unpacking into a separate buffer gives, and no packed byte is
\* overwritten before the loop has read it.
C34_InPlaceExpansion ==
    /\ up_pc = "done"
          => /\ up_buf = unpack_separate(up_info)
             /\ PngOk(up_buf) = read_png_reader(up_info, up_junk)
    /\ up_pc = "loop" => \A i \in UpUnread : up_buf[i + 1] = up_info.data[i + 1]

C34_Witness ==
    /\ up_pc = "done"
    /\ up_info.bit_depth = 1
    /\ Len(up_info.data) = MaxPacked
    /\ up_info.data[1] = 180 /\ up_info.data[2] = 27
    /\ up_buf # up_junk
    /\ \E p \in 1..Len(up_buf) : up_buf[p] \notin {0, 1}

\* the target of a retrieve run: args.at, or the latest diff name
RtTarget == IF rt_at # None THEN rt_at[1] ELSE Ascending(rt_dir)[Len(Ascending(rt_dir))]

\* the diff names later than the base name and not later than the target
RtBetween == {d \in rt_dir : d > rt_base /\ d <= RtTarget}

\* C37: the diffs applied are those named later than the base snapshot and
\* not later than the target, in ascending order, whether or not the diff
\* directory holds the base name; a target that is not a diff name is an
\* error.
C37_DiffsSelected ==
    /\ rt_pc = "done" => rt_applied = Ascending(RtBetween)
    /\ (rt_pc # "start" /\ rt_dir # {} /\ RtTarget \notin rt_dir) => rt_pc = "error"

\* the same when no diff is named earlier than a base that the directory
\* does not hold
C37_SelectedFromBase ==
    (rt_base \in rt_dir \/ \A d \in rt_dir : d > rt_base)
        => /\ rt_pc = "done" => rt_applied = Ascending(RtBetween)
           /\ (rt_pc # "start" /\ rt_dir # {} /\ RtTarget \notin rt_dir)
                 => rt_pc = "error"

\* the diff names that processed.txt lists
IxListed == {x \in DOMAIN ix_dir : processed_contains(lines(ix_track), x)}

\* the index of diff x is complete in the database
IxComplete(x) == write_batch(x, ix_dir[x]) \subseteq ix_db

RECURSIVE CkDescending(_)
CkDescending(chunks) ==
    IF DOMAIN chunks = {} THEN <<>>
    ELSE LET top == CHOOSE n \in DOMAIN chunks :
                        \A m \in DOMAIN chunks : m = n \/ cmp_less(m, n)
         IN  <<<<top, blake3_hash(chunks[top])>>>>
               \o CkDescending([m \in DOMAIN chunks \ {top} |-> chunks[m]])

\* C39: whatever the order of the add_chunk calls over chunks with distinct
\* numbers, compute returns the hash that one fixed order of the same calls
\* gives.
C39_OrderIndependent ==
    ck_pc = "done" => ck_result = compute(CkDescending(ck_chunks))

C39_Witness ==
    /\ ck_pc = "done"
    /\ Len(ck_list) = Cardinality(CkNumbers)
    /\ ck_list # CkDescending(ck_chunks)
    /\ ck_list # sort_by(ck_list)
    /\ ck_list[1][1] = <<256, 0>> /\ ck_list[2][1] = <<0, 2>>

====
